---------------------------- MODULE Spec2Model ----------------------------
(***************************************************************************)
(* Model of crane_core's ground-bearing analysis                           *)
(* (src/src/physics/ground_bearing.rs) and of its load-chart engine        *)
(* (src/src/capacity/load_chart.rs), with the chart packages and library   *)
(* (src/src/capacity/chart_library.rs), the tower crane and its moment     *)
(* limiter (src/src/equipment/crane/tower.rs) and the lift validation      *)
(* report (src/src/capacity/lift_validation.rs).                           *)
(*                                                                         *)
(* A GroundBearingAnalysis is built by its constructor, grown by           *)
(* add_support and queried by calculate_reactions, validate_soil_capacity  *)
(* and required_mat_area.  The queries are pure functions of the analysis; *)
(* they are operators over a record `self`, and the actions record what a  *)
(* call returned in `outcome`.                                             *)
(*                                                                         *)
(* f64 values are modelled as exact rationals extended with the IEEE-754   *)
(* special values +inf, -inf and NaN, which the code produces when it      *)
(* divides by a zero total weight or a zero support span.  Rounding is not *)
(* modelled.                                                               *)
(*                                                                         *)
(* A LoadChart is a value with public fields, authored row by row and then *)
(* queried by capacity_exact, capacity_interpolated and                    *)
(* matches_configuration.  Lengths are carried in feet and masses in       *)
(* pounds, the units in which the code states its tolerances.              *)
(***************************************************************************)
EXTENDS Integers, Sequences, FiniteSets, TLC

VARIABLES
    support_points,   \* Vec<SupportPoint>, in insertion order
    crane_weight,     \* pounds
    crane_cog,        \* Point3, feet
    load_weight,      \* pounds
    load_position,    \* Point3, feet
    boom_lengths,     \* LoadChart.capacity_data.boom_lengths: Vec<LengthValue>
    data,             \* LoadChart.capacity_data.data: Vec<Vec<(LengthValue, MassValue)>>
    configuration,    \* LoadChart.configuration
    charts,           \* LoadChartPackage.charts: Vec<LoadChart>, in insertion order
    packages,         \* ChartLibrary.packages: HashMap<String, LoadChartPackage>
    tower,            \* a TowerCrane
    report,           \* a lift ValidationReport
    outcome           \* the value a query returned to the caller (NoCall: none pending)

analysis_vars == <<support_points, crane_weight, crane_cog, load_weight, load_position>>

chart_vars == <<boom_lengths, data, configuration>>

other_vars == <<charts, packages, tower, report>>

vars == <<analysis_vars, chart_vars, other_vars, outcome>>

----------------------------------------------------------------------------
(* Bounds of the model.                                                    *)

MaxSupports == 4
MaxWeight == 2
MaxCoord == 1
MaxLoadCoord == 2
MaxArea == 2
AllowablePsi == 2
MaxSafetyFactor == 2
LayoutLoadCoord == 4
MaxRows == 2
MaxPoints == 3

----------------------------------------------------------------------------
(* f64: exact rationals n/d (d > 0, lowest terms) plus inf (n = +1 or -1)  *)
(* and nan.                                                                *)

Abs(i) == IF i < 0 THEN -i ELSE i

Sgn(i) == IF i > 0 THEN 1 ELSE IF i < 0 THEN -1 ELSE 0

RECURSIVE GCD(_, _)
GCD(a, b) == IF b = 0 THEN a ELSE GCD(b, a % b)

NaN == [k |-> "nan", n |-> 0, d |-> 1]

Inf(s) == [k |-> "inf", n |-> s, d |-> 1]

Rat(n, d) ==
    LET g == GCD(Abs(n), Abs(d))
    IN  [k |-> "fin", n |-> Sgn(d) * (n \div g), d |-> Abs(d) \div g]

Fin(i) == [k |-> "fin", n |-> i, d |-> 1]

IsFinite(a) == a.k = "fin"

IsNaN(a) == a.k = "nan"

FNeg(a) == IF a.k = "nan" THEN a ELSE [a EXCEPT !.n = -a.n]

FAdd(a, b) ==
    IF a.k = "nan" \/ b.k = "nan" THEN NaN
    ELSE IF a.k = "fin" /\ b.k = "fin"
         THEN IF a.d = 1 /\ b.d = 1 THEN Fin(a.n + b.n)
              ELSE LET g == GCD(a.d, b.d)
                   IN  Rat(a.n * (b.d \div g) + b.n * (a.d \div g),
                           (a.d \div g) * b.d)
    ELSE IF a.k = "fin" THEN b
    ELSE IF b.k = "fin" THEN a
    ELSE IF a.n = b.n THEN a ELSE NaN

FSub(a, b) == FAdd(a, FNeg(b))

FMul(a, b) ==
    IF a.k = "nan" \/ b.k = "nan" THEN NaN
    ELSE IF a.k = "fin" /\ b.k = "fin"
         THEN IF a.d = 1 /\ b.d = 1 THEN Fin(a.n * b.n)
              ELSE LET g == GCD(Abs(a.n), b.d)
                       h == GCD(Abs(b.n), a.d)
                   IN  Rat((a.n \div g) * (b.n \div h), (a.d \div h) * (b.d \div g))
    ELSE IF Sgn(a.n) * Sgn(b.n) = 0 THEN NaN
    ELSE Inf(Sgn(a.n) * Sgn(b.n))

FDiv(a, b) ==
    IF a.k = "nan" \/ b.k = "nan" THEN NaN
    ELSE IF a.k = "fin" /\ b.k = "fin"
         THEN IF b.n = 0
              THEN (IF a.n = 0 THEN NaN ELSE Inf(Sgn(a.n)))
              ELSE IF a.d = 1 /\ b.d = 1 THEN Rat(a.n, b.n)
              ELSE LET g == GCD(Abs(a.n), Abs(b.n))
                       h == GCD(a.d, b.d)
                   IN  Rat((a.n \div g) * (b.d \div h), (a.d \div h) * (b.n \div g))
    ELSE IF a.k = "inf" /\ b.k = "inf" THEN NaN
    ELSE IF a.k = "fin" THEN Fin(0)
    ELSE Inf(a.n * (IF b.n < 0 THEN -1 ELSE 1))

FLt(a, b) ==
    IF a.k = "nan" \/ b.k = "nan" THEN FALSE
    ELSE IF a.k = "fin" /\ b.k = "fin"
         THEN IF a.d = b.d THEN a.n < b.n
              ELSE LET g == GCD(a.d, b.d)
                   IN  a.n * (b.d \div g) < b.n * (a.d \div g)
    ELSE IF a.k = "inf" /\ b.k = "inf" THEN a.n < b.n
    ELSE IF a.k = "inf" THEN a.n < 0
    ELSE b.n > 0

FGt(a, b) == FLt(b, a)

FEq(a, b) == a.k # "nan" /\ b.k # "nan" /\ a = b

FGe(a, b) == FGt(a, b) \/ FEq(a, b)

----------------------------------------------------------------------------
(* Results and errors.                                                     *)

Ok(v) == [ok |-> TRUE, val |-> v]

Err(kind, arg) == [ok |-> FALSE, err |-> kind, arg |-> arg]

InsufficientSupports == Err("InsufficientSupports", 0)

UnstableConfiguration(name) == Err("UnstableConfiguration", name)

InvalidConfiguration == Err("InvalidConfiguration", 0)

ExceedsAllowable(actual, allowable) ==
    Err("ExceedsAllowable", [actual |-> actual, allowable |-> allowable])

NoCall == [op |-> "none"]

----------------------------------------------------------------------------
(* The analysis the state holds.                                           *)

Self ==
    [support_points |-> support_points,
     crane_weight   |-> crane_weight,
     crane_cog      |-> crane_cog,
     load_weight    |-> load_weight,
     load_position  |-> load_position]

Point3(x, y, z) == [x |-> x, y |-> y, z |-> z]

SupportPoint(position, contact_area, name) ==
    [position |-> position, contact_area |-> contact_area, name |-> name]

Indices(self) == 1..Len(self.support_points)

----------------------------------------------------------------------------
(* calculate_reactions_from_moments: the closed-form four-point solver.    *)

RECURSIVE SumTo(_, _)
SumTo(f, n) == IF n = 0 THEN Fin(0) ELSE FAdd(SumTo(f, n - 1), f[n])

PosX(self) == [i \in Indices(self) |-> Fin(self.support_points[i].position.x)]

PosZ(self) == [i \in Indices(self) |-> Fin(self.support_points[i].position.z)]

\* iter().max_by(partial_cmp) and min_by(partial_cmp) over finite coordinates
MaxOf(f) == CHOOSE v \in {f[i] : i \in DOMAIN f} : \A i \in DOMAIN f : ~FLt(v, f[i])

MinOf(f) == CHOOSE v \in {f[i] : i \in DOMAIN f} : \A i \in DOMAIN f : ~FLt(f[i], v)

AvgX(self) == FDiv(SumTo(PosX(self), 4), Fin(4))

AvgZ(self) == FDiv(SumTo(PosZ(self), 4), Fin(4))

XSpan(self) == FSub(MaxOf(PosX(self)), MinOf(PosX(self)))

ZSpan(self) == FSub(MaxOf(PosZ(self)), MinOf(PosZ(self)))

\* Variants of two of the solver's expressions, one operator away from the code.
Effect_Unsigned(coord, avg, arm, span, total_weight) ==
    FDiv(FMul(FDiv(arm, span), total_weight), Fin(2))

MomentReaction_HalfBase(x, z, avg_x, avg_z, dx, dz, x_span, z_span, total_weight) ==
    FAdd(FDiv(total_weight, Fin(2)),
         FAdd(FDiv(FMul(FDiv(dx, x_span), total_weight), Fin(2)),
              FDiv(FMul(FDiv(dz, z_span), total_weight), Fin(2))))

\* the correction of one axis: arm / span * total_weight / 2, its sign by the side
Effect(coord, avg, arm, span, total_weight) ==
    IF FGt(coord, avg)
    THEN FDiv(FMul(FDiv(arm, span), total_weight), Fin(2))
    ELSE FDiv(FMul(FNeg(FDiv(arm, span)), total_weight), Fin(2))

\* reactions[i] after `reactions[i] += x_effect + z_effect`
MomentReaction(x, z, avg_x, avg_z, dx, dz, x_span, z_span, total_weight) ==
    FAdd(FDiv(total_weight, Fin(4)),
         FAdd(Effect(x, avg_x, dx, x_span, total_weight),
              Effect(z, avg_z, dz, z_span, total_weight)))

\* the reactions of the four supports, in support order
MomentReactions(px, pz, avg_x, avg_z, dx, dz, x_span, z_span, total_weight) ==
    << MomentReaction(px[1], pz[1], avg_x, avg_z, dx, dz, x_span, z_span, total_weight),
       MomentReaction(px[2], pz[2], avg_x, avg_z, dx, dz, x_span, z_span, total_weight),
       MomentReaction(px[3], pz[3], avg_x, avg_z, dx, dz, x_span, z_span, total_weight),
       MomentReaction(px[4], pz[4], avg_x, avg_z, dx, dz, x_span, z_span, total_weight) >>

\* the tipping check of the loop: `if reactions[i] < 0.0`
Tipping(reaction) == FLt(reaction, Fin(0))

\* the loop returns at the first support whose reaction is negative
FirstTipping(self, r) ==
    LET neg == {i \in 1..4 : Tipping(r[i])}
    IN  IF neg # {}
        THEN UnstableConfiguration(
                 self.support_points[CHOOSE i \in neg : \A j \in neg : i <= j].name)
        ELSE Ok(r)

\* the body of calculate_reactions_from_moments once the centerline is known
FromCenterline(self, combined_cog, total_weight, avg_x, avg_z) ==
    FirstTipping(self,
        MomentReactions(PosX(self), PosZ(self), avg_x, avg_z,
            FSub(combined_cog.x, avg_x), FSub(combined_cog.z, avg_z),
            XSpan(self), ZSpan(self), total_weight))

calculate_reactions_from_moments(self, combined_cog, total_weight) ==
    IF Len(self.support_points) # 4 THEN InvalidConfiguration
    ELSE FromCenterline(self, combined_cog, total_weight, AvgX(self), AvgZ(self))

----------------------------------------------------------------------------
(* calculate_four_point_reactions.                                         *)

TotalWeight(self) == FAdd(Fin(self.crane_weight), Fin(self.load_weight))

\* (crane_cog.coords * crane_weight + load_position.coords * load_weight) / total_weight
CombinedCog(self) ==
    LET cw == Fin(self.crane_weight)
        lw == Fin(self.load_weight)
        c  == self.crane_cog
        l  == self.load_position
        W  == TotalWeight(self)
    IN  [x |-> FDiv(FAdd(FMul(Fin(c.x), cw), FMul(Fin(l.x), lw)), W),
         y |-> FDiv(FAdd(FMul(Fin(c.y), cw), FMul(Fin(l.y), lw)), W),
         z |-> FDiv(FAdd(FMul(Fin(c.z), cw), FMul(Fin(l.z), lw)), W)]

SupportReaction(name, force, pressure, contact_area) ==
    [name |-> name, force |-> force, pressure |-> pressure, contact_area |-> contact_area]

\* pressure = reaction_lb / area_sq_in
PressureOf(force, contact_area) == FDiv(force, contact_area)

\* `if reaction > max_reaction` of the pressure loop
Exceeds(reaction, max_reaction) == FGt(reaction, max_reaction)

\* the loop over supports that tracks max_reaction, max_pressure and critical_idx,
\* acc being their values after the first i supports (critical_idx is 0-based)
RECURSIVE TrackMax(_, _, _)
TrackMax(self, reactions, i) ==
    IF i = 0
    THEN [max_reaction |-> Fin(0), max_pressure |-> Fin(0), critical_idx |-> 0]
    ELSE LET acc == TrackMax(self, reactions, i - 1)
         IN  IF Exceeds(reactions[i], acc.max_reaction)
             THEN [max_reaction |-> reactions[i],
                   max_pressure |-> PressureOf(reactions[i],
                                               self.support_points[i].contact_area),
                   critical_idx |-> i - 1]
             ELSE acc

GroundBearingResult(reactions, max_reaction, max_pressure, critical_support_index) ==
    [reactions |-> reactions, max_reaction |-> max_reaction,
     max_pressure |-> max_pressure, critical_support_index |-> critical_support_index]

\* the part of calculate_four_point_reactions after the `?`
FourPointResult(self, r) ==
    IF ~r.ok THEN r
    ELSE LET acc == TrackMax(self, r.val, 4)
             support_reactions ==
                 [i \in 1..4 |->
                     SupportReaction(self.support_points[i].name, r.val[i],
                         PressureOf(r.val[i], self.support_points[i].contact_area),
                         self.support_points[i].contact_area)]
         IN  Ok(GroundBearingResult(support_reactions, acc.max_reaction,
                                    acc.max_pressure, acc.critical_idx))

calculate_four_point_reactions(self) ==
    FourPointResult(self,
        calculate_reactions_from_moments(self, CombinedCog(self), TotalWeight(self)))

----------------------------------------------------------------------------
(* calculate_general_reactions: the whole weight on the support nearest    *)
(* the load.                                                               *)

\* (support.position - load_position).norm(), kept as its square: the code only
\* compares norms, and sqrt is monotone
NormSq(self, i) ==
    LET p == self.support_points[i].position
        l == self.load_position
    IN  Fin((p.x - l.x) * (p.x - l.x) + (p.y - l.y) * (p.y - l.y)
            + (p.z - l.z) * (p.z - l.z))

\* f64::MAX, the initial min_distance: above every distance of finite coordinates
F64Max == Inf(1)

\* Variants of four of the code's expressions; each differs from the code in
\* one operator, and the properties below tell the variant from the code.
Nearer_OrEqual(distance, min_distance) == ~FGt(distance, min_distance)

TooFewSupports_BelowTwo(self) == Len(self.support_points) < 2

OverAllowable_OrEqual(max_psi, allowable_psi) == FGe(max_psi, allowable_psi)

RequiredSqIn_Undivided(max_reaction_lb, allowable_pressure, safety_factor) ==
    FMul(max_reaction_lb, FDiv(allowable_pressure, safety_factor))

\* `if distance < min_distance`
Nearer(distance, min_distance) == FLt(distance, min_distance)

\* min_distance and critical_idx (0-based) after the first i supports
RECURSIVE NearestScan(_, _)
NearestScan(self, i) ==
    IF i = 0
    THEN [min_distance |-> F64Max, critical_idx |-> 0]
    ELSE LET acc == NearestScan(self, i - 1)
         IN  IF Nearer(NormSq(self, i), acc.min_distance)
             THEN [min_distance |-> NormSq(self, i), critical_idx |-> i - 1]
             ELSE acc

calculate_general_reactions(self) ==
    LET total_weight == TotalWeight(self)
        worst_case_reaction == total_weight
        critical_idx == NearestScan(self, Len(self.support_points)).critical_idx
        critical_support == self.support_points[critical_idx + 1]
        worst_pressure == PressureOf(total_weight, critical_support.contact_area)
        support_reactions ==
            [i \in Indices(self) |->
                LET reaction == IF i - 1 = critical_idx THEN worst_case_reaction
                                                         ELSE Fin(0)
                IN  SupportReaction(self.support_points[i].name, reaction,
                        PressureOf(reaction, self.support_points[i].contact_area),
                        self.support_points[i].contact_area)]
    IN  Ok(GroundBearingResult(support_reactions, worst_case_reaction,
                               worst_pressure, critical_idx))

----------------------------------------------------------------------------
(* calculate_reactions, validate_soil_capacity, required_mat_area.         *)

\* `if self.support_points.len() < 3`
TooFewSupports(self) == Len(self.support_points) < 3

\* `if self.support_points.len() == 4`
IsFourPoint(self) == Len(self.support_points) = 4

calculate_reactions(self) ==
    IF TooFewSupports(self) THEN InsufficientSupports
    ELSE IF IsFourPoint(self) THEN calculate_four_point_reactions(self)
    ELSE calculate_general_reactions(self)

\* `if max_psi > allowable_psi`
OverAllowable(max_psi, allowable_psi) == FGt(max_psi, allowable_psi)

\* the part of validate_soil_capacity after the `?`
SoilVerdict(result, allowable_pressure) ==
    IF ~result.ok THEN result
    ELSE IF OverAllowable(result.val.max_pressure, allowable_pressure)
         THEN ExceedsAllowable(result.val.max_pressure, allowable_pressure)
         ELSE Ok(<<>>)

validate_soil_capacity(self, allowable_pressure) ==
    SoilVerdict(calculate_reactions(self), allowable_pressure)

\* max_reaction_lb / (allowable_pressure / safety_factor)
RequiredSqIn(max_reaction_lb, allowable_pressure, safety_factor) ==
    FDiv(max_reaction_lb, FDiv(allowable_pressure, safety_factor))

\* the part of required_mat_area after the `?`
MatArea(result, allowable_pressure, safety_factor) ==
    IF ~result.ok THEN result
    ELSE Ok(RequiredSqIn(result.val.max_reaction, allowable_pressure, safety_factor))

required_mat_area(self, allowable_pressure, safety_factor) ==
    MatArea(calculate_reactions(self), allowable_pressure, safety_factor)

----------------------------------------------------------------------------
(* WithUnit<T>: a number and the unit string it was written in              *)
(* (src/src/types/units/explicit_unit_values.rs).  An Option is a sequence  *)
(* of length 0 (None) or 1 (Some).                                          *)

WithUnit(value, unit) == [value |-> value, unit |-> unit]

FootUnits == {"ft", "Ft", "FT", "foot", "Foot", "FOOT", "feet", "Feet", "FEET"}

InchUnits == {"in", "In", "IN", "inch", "Inch", "INCH", "inches", "Inches", "INCHES"}

MeterUnits == {"m", "M", "meter", "Meter", "METER", "metre", "Metre", "METRE",
               "meters", "Meters", "METERS", "metres", "Metres", "METRES"}

CentimeterUnits == {"cm", "Cm", "CM", "centimeter", "Centimeter", "CENTIMETER",
                    "centimetre", "Centimetre", "CENTIMETRE",
                    "centimeters", "Centimeters", "CENTIMETERS",
                    "centimetres", "Centimetres", "CENTIMETRES"}

MillimeterUnits == {"mm", "Mm", "MM", "millimeter", "Millimeter", "MILLIMETER",
                    "millimetre", "Millinetre", "MILLIMETRE",
                    "millimeters", "Millimeters", "MILLIMETERS",
                    "millimetres", "Millimetres", "MILLIMETRES"}

YardUnits == {"yd", "Yd", "YD", "yard", "Yard", "YARD", "yards", "Yards", "YARDS"}

\* feet in one metre: 1 ft = 0.3048 m
FeetPerMeter == Rat(1250, 381)

\* WithUnit<Length>::to_distance, the Length expressed in feet
to_distance(self) ==
    IF self.unit \in FootUnits THEN Ok(self.value)
    ELSE IF self.unit \in InchUnits THEN Ok(FDiv(self.value, Fin(12)))
    ELSE IF self.unit \in MeterUnits THEN Ok(FMul(self.value, FeetPerMeter))
    ELSE IF self.unit \in CentimeterUnits
         THEN Ok(FDiv(FMul(self.value, FeetPerMeter), Fin(100)))
    ELSE IF self.unit \in MillimeterUnits
         THEN Ok(FDiv(FMul(self.value, FeetPerMeter), Fin(1000)))
    ELSE IF self.unit \in YardUnits THEN Ok(FMul(self.value, Fin(3)))
    ELSE Err("UnknownLengthUnit", self.unit)

PoundUnits == {"lb", "Lb", "LB", "lbs", "Lbs", "LBS",
               "pound", "Pound", "POUND", "pounds", "Pounds", "POUNDS"}

KilogramUnits == {"kg", "Kg", "KG", "kgs", "Kgs", "KGS",
                  "kilogram", "Kilogram", "KILOGRAN",
                  "kilograms", "Kilograms", "KILOGRANS"}

ShortTonUnits == {"short ton", "Short Ton", "SHORT TON",
                  "short tons", "Short Tons", "SHORT TONS"}

MetricTonUnits == {"metric ton", "Metric Ton", "METRIC TON",
                   "metric tons", "Metric Tons", "METRIC TONS"}

LongTonUnits == {"long ton", "Long Ton", "LONG TON",
                 "long tons", "Long Tons", "LONG TONS"}

GramUnits == {"g", "G", "gram", "Gram", "GRAM", "grams", "Grams", "GRAMS"}

\* pounds in one kilogram: 1 lb = 0.45359237 kg
PoundsPerKilogram == Rat(100000000, 45359237)

\* a variant that reads a mass of unknown unit as pounds
to_mass_DefaultPounds(self) ==
    IF self.unit \in KilogramUnits THEN Ok(FMul(self.value, PoundsPerKilogram))
    ELSE IF self.unit \in ShortTonUnits THEN Ok(FMul(self.value, Fin(2000)))
    ELSE IF self.unit \in MetricTonUnits
         THEN Ok(FMul(FMul(self.value, Fin(1000)), PoundsPerKilogram))
    ELSE IF self.unit \in LongTonUnits THEN Ok(FMul(self.value, Fin(2240)))
    ELSE IF self.unit \in GramUnits
         THEN Ok(FDiv(FMul(self.value, PoundsPerKilogram), Fin(1000)))
    ELSE Ok(self.value)

\* WithUnit<Mass>::to_mass, the Mass expressed in pounds
to_mass(self) ==
    IF self.unit \in PoundUnits THEN Ok(self.value)
    ELSE IF self.unit \in KilogramUnits THEN Ok(FMul(self.value, PoundsPerKilogram))
    ELSE IF self.unit \in ShortTonUnits THEN Ok(FMul(self.value, Fin(2000)))
    ELSE IF self.unit \in MetricTonUnits
         THEN Ok(FMul(FMul(self.value, Fin(1000)), PoundsPerKilogram))
    ELSE IF self.unit \in LongTonUnits THEN Ok(FMul(self.value, Fin(2240)))
    ELSE IF self.unit \in GramUnits
         THEN Ok(FDiv(FMul(self.value, PoundsPerKilogram), Fin(1000)))
    ELSE Err("UnknownMassUnit", self.unit)

----------------------------------------------------------------------------
(* LoadChart: capacity_exact, capacity_interpolated and their helpers       *)
(* (src/src/capacity/load_chart.rs).                                        *)

FAbs(a) == IF a.k = "fin" THEN [a EXCEPT !.n = Abs(a.n)]
           ELSE IF a.k = "inf" THEN Inf(1) ELSE NaN

FLe(a, b) == FLt(a, b) \/ FEq(a, b)

\* LoadChartError
NoData == Err("NoData", <<>>)

BoomLengthNotFound(boom_length) == Err("BoomLengthNotFound", boom_length)

RadiusOutOfRange(radius) == Err("RadiusOutOfRange", radius)

\* `?` on a Result<_, UnitError> in a function returning LoadChartError (#[from])
UnitError(e) == Err("UnitError", [kind |-> e.err, unit |-> e.arg])

ChartConfiguration(support, boom_length, counterweight) ==
    [support |-> support, boom |-> [length |-> boom_length],
     counterweight |-> counterweight]

OnRubber(speed_restriction) == [kind |-> "OnRubber", speed_restriction |-> speed_restriction]

OnOutriggers(extension, swing_restriction) ==
    [kind |-> "OnOutriggers", extension |-> extension,
     swing_restriction |-> swing_restriction]

OnCrawlers(track_config) == [kind |-> "OnCrawlers", track_config |-> track_config]

\* &self of the LoadChart methods
Chart ==
    [configuration |-> configuration,
     capacity_data |-> [boom_lengths |-> boom_lengths, data |-> data]]

\* iter().map(..).collect::<Result<Vec<_>, _>>(): the first Err, else all the values
Collect(results) ==
    LET bad == {i \in DOMAIN results : ~results[i].ok}
    IN  IF bad # {}
        THEN results[CHOOSE i \in bad : \A j \in bad : i <= j]
        ELSE Ok([i \in DOMAIN results |-> results[i].val])

\* CapacityData::boom_lengths
boom_lengths_of(self) ==
    Collect([i \in DOMAIN self.capacity_data.boom_lengths |->
                to_distance(self.capacity_data.boom_lengths[i])])

\* the closure of capacity_points: Ok((r.to_distance()?, w.to_mass()?))
PointOf(pair) ==
    IF ~to_distance(pair[1]).ok THEN to_distance(pair[1])
    ELSE IF ~to_mass(pair[2]).ok THEN to_mass(pair[2])
    ELSE Ok(<<to_distance(pair[1]).val, to_mass(pair[2]).val>>)

\* CapacityData::capacity_points (boom_idx is 1-based here)
capacity_points(self, boom_idx) ==
    Collect([i \in DOMAIN self.capacity_data.data[boom_idx] |->
                PointOf(self.capacity_data.data[boom_idx][i])])

\* the tolerance of an exact match, 0.01 ft
ExactTolerance == Rat(1, 100)

\* `(b - boom_length).abs().get::<foot>() < 0.01`
Within(a, b, tolerance) == FLt(FAbs(FSub(a, b)), tolerance)

\* a variant that takes the last index that satisfies the predicate
Position_Last(hits) == IF hits = {} THEN 0 ELSE CHOOSE i \in hits : \A j \in hits : j <= i

\* iter().position(..) over the indices that satisfy the predicate: the first, 0 for None
Position(hits) == IF hits = {} THEN 0 ELSE CHOOSE i \in hits : \A j \in hits : i <= j

\* the part of capacity_exact that scans the matched row
ExactInRow(points, radius) ==
    IF ~points.ok THEN UnitError(points)
    ELSE LET k == Position({i \in DOMAIN points.val :
                               Within(points.val[i][1], radius, ExactTolerance)})
         IN  IF k = 0 THEN RadiusOutOfRange(radius) ELSE Ok(points.val[k][2])

\* the part of capacity_exact after `boom_lengths()?`
ExactInBooms(self, booms, boom_length, radius) ==
    LET boom_idx == Position({i \in DOMAIN booms :
                                 Within(booms[i], boom_length, ExactTolerance)})
    IN  IF boom_idx = 0 THEN BoomLengthNotFound(boom_length)
        ELSE ExactInRow(capacity_points(self, boom_idx), radius)

capacity_exact(self, boom_length, radius) ==
    IF ~boom_lengths_of(self).ok THEN UnitError(boom_lengths_of(self))
    ELSE ExactInBooms(self, boom_lengths_of(self).val, boom_length, radius)

\* the epsilon of the interpolated lookups, 0.1 ft
Epsilon == Rat(1, 10)

\* `b <= boom_length + epsilon` and `b >= boom_length - epsilon`
AtMost(v, query) == FLe(v, FAdd(query, Epsilon))

AtLeast(v, query) == FLe(FSub(query, Epsilon), v)

\* filter(..).max_by(partial_cmp) over the indices hits of the keys: of the
\* greatest keys the last, 0 for None
MaxBy(key, hits) ==
    IF hits = {} THEN 0
    ELSE CHOOSE i \in hits :
             \A j \in hits : FLt(key[j], key[i]) \/ (key[j] = key[i] /\ j <= i)

\* filter(..).min_by(partial_cmp): of the least keys the first, 0 for None
MinBy(key, hits) ==
    IF hits = {} THEN 0
    ELSE CHOOSE i \in hits :
             \A j \in hits : FLt(key[i], key[j]) \/ (key[j] = key[i] /\ i <= j)

\* a variant without the test for an empty chart
BoundsIn_NoEmptyCheck(booms, boom_length) ==
    IF \/ \A i \in DOMAIN booms : ~AtMost(booms[i], boom_length)
       \/ \A i \in DOMAIN booms : ~AtLeast(booms[i], boom_length)
    THEN BoomLengthNotFound(boom_length)
    ELSE Ok(<<MaxBy(booms, {i \in DOMAIN booms : AtMost(booms[i], boom_length)}),
              MinBy(booms, {i \in DOMAIN booms : AtLeast(booms[i], boom_length)})>>)

\* the part of find_boom_bounds after `boom_lengths()?`
BoundsIn(booms, boom_length) ==
    LET lower_idx == MaxBy(booms, {i \in DOMAIN booms : AtMost(booms[i], boom_length)})
        upper_idx == MinBy(booms, {i \in DOMAIN booms : AtLeast(booms[i], boom_length)})
    IN  IF Len(booms) = 0 THEN NoData
        ELSE IF lower_idx = 0 THEN BoomLengthNotFound(boom_length)
        ELSE IF upper_idx = 0 THEN BoomLengthNotFound(boom_length)
        ELSE Ok(<<lower_idx, upper_idx>>)

find_boom_bounds(self, boom_length) ==
    IF ~boom_lengths_of(self).ok THEN UnitError(boom_lengths_of(self))
    ELSE BoundsIn(boom_lengths_of(self).val, boom_length)

\* a variant that takes the lower capacity instead of interpolating
Lerp_FromLower(query, lower0, lower1, upper0, upper1) == lower1

\* lower.1 + ratio * (upper.1 - lower.1), ratio = (query - lower.0) / (upper.0 - lower.0)
Lerp(query, lower0, lower1, upper0, upper1) ==
    FAdd(lower1, FMul(FDiv(FSub(query, lower0), FSub(upper0, lower0)),
                      FSub(upper1, lower1)))

\* `if (lower.0 - upper.0).abs() < epsilon`
SameRadius(lower0, upper0) == FLt(FAbs(FSub(lower0, upper0)), Epsilon)

\* a variant that holds the end capacity of a row beyond the row's ends
RadiusIn_Clamped(points, radius) ==
    LET key   == [i \in DOMAIN points |-> points[i][1]]
        lower == MaxBy(key, {i \in DOMAIN points : AtMost(key[i], radius)})
        upper == MinBy(key, {i \in DOMAIN points : AtLeast(key[i], radius)})
    IN  IF Len(points) = 0 THEN NoData
        ELSE IF lower = 0 THEN Ok(points[upper][2])
        ELSE IF upper = 0 THEN Ok(points[lower][2])
        ELSE IF SameRadius(points[lower][1], points[upper][1]) THEN Ok(points[lower][2])
        ELSE Ok(Lerp(radius, points[lower][1], points[lower][2],
                     points[upper][1], points[upper][2]))

\* the part of interpolate_radius after `capacity_points(boom_idx)?`
RadiusIn(points, radius) ==
    LET key   == [i \in DOMAIN points |-> points[i][1]]
        lower == MaxBy(key, {i \in DOMAIN points : AtMost(key[i], radius)})
        upper == MinBy(key, {i \in DOMAIN points : AtLeast(key[i], radius)})
    IN  IF Len(points) = 0 THEN NoData
        ELSE IF lower = 0 THEN RadiusOutOfRange(radius)
        ELSE IF upper = 0 THEN RadiusOutOfRange(radius)
        ELSE IF SameRadius(points[lower][1], points[upper][1]) THEN Ok(points[lower][2])
        ELSE Ok(Lerp(radius, points[lower][1], points[lower][2],
                     points[upper][1], points[upper][2]))

interpolate_radius(self, boom_idx, radius) ==
    IF ~capacity_points(self, boom_idx).ok THEN UnitError(capacity_points(self, boom_idx))
    ELSE RadiusIn(capacity_points(self, boom_idx).val, radius)

\* the part of capacity_interpolated after the two `interpolate_radius(..)?`
Blend(booms, boom_lower_idx, boom_upper_idx, boom_length, capacity_lower, capacity_upper) ==
    IF boom_lower_idx = boom_upper_idx THEN Ok(capacity_lower)
    ELSE Ok(Lerp(boom_length, booms[boom_lower_idx], capacity_lower,
                 booms[boom_upper_idx], capacity_upper))

capacity_interpolated(self, boom_length, radius) ==
    LET bounds == find_boom_bounds(self, boom_length)
        capacity_lower == interpolate_radius(self, bounds.val[1], radius)
        capacity_upper == interpolate_radius(self, bounds.val[2], radius)
    IN  IF ~bounds.ok THEN bounds
        ELSE IF ~capacity_lower.ok THEN capacity_lower
        ELSE IF ~capacity_upper.ok THEN capacity_upper
        ELSE Blend(boom_lengths_of(self).val, bounds.val[1], bounds.val[2],
                   boom_length, capacity_lower.val, capacity_upper.val)

\* a variant that compares the support variants only
SupportMatches_KindOnly(self, other) == self.kind = other.kind

\* ConfigurationMatch for SupportConfiguration: discriminants only
SupportMatches(self, other) ==
    IF self.kind = "OnOutriggers" /\ other.kind = "OnOutriggers"
    THEN self.extension.kind = other.extension.kind
    ELSE self.kind = other.kind

\* `(my_length - other_length).abs().get::<foot>() < 0.01`
BoomClose(my_length, other_length) == Within(my_length, other_length, ExactTolerance)

\* ConfigurationMatch for BoomConfiguration
BoomMatches(self, other) ==
    /\ to_distance(self.length).ok
    /\ to_distance(other.length).ok
    /\ BoomClose(to_distance(self.length).val, to_distance(other.length).val)

\* `(my_weight - other_weight).abs().get::<pound>() < 1.0`
WeightClose(my_weight, other_weight) == Within(my_weight, other_weight, Fin(1))

\* ConfigurationMatch for CounterweightConfiguration
CounterweightMatches(self, other) ==
    /\ to_mass(self.weight).ok
    /\ to_mass(other.weight).ok
    /\ WeightClose(to_mass(self.weight).val, to_mass(other.weight).val)

\* `if let (Some(my_cw), Some(req_cw))`
BothSpecify(mine, theirs) == Len(mine) = 1 /\ Len(theirs) = 1

matches_configuration(self, config) ==
    IF ~SupportMatches(self.configuration.support, config.support) THEN FALSE
    ELSE IF ~BoomMatches(self.configuration.boom, config.boom) THEN FALSE
    ELSE IF BothSpecify(self.configuration.counterweight, config.counterweight)
            /\ ~CounterweightMatches(self.configuration.counterweight[1],
                                     config.counterweight[1])
         THEN FALSE
    ELSE TRUE

----------------------------------------------------------------------------
(* The tower crane and its load moment limiter                             *)
(* (src/src/equipment/crane/tower.rs).  Moments are in ft-lb.              *)

\* SafetyMargins::standard
SafetyMargins_standard ==
    [warning_factor |-> Rat(9, 10), shutdown_factor |-> Fin(1), safety_factor |-> Fin(1)]

\* `x <= 0.0 || x > 1.0`
OutOfUnitRange(x) == FLe(x, Fin(0)) \/ FGt(x, Fin(1))

\* SafetyMargins::validate
SafetyMargins_validate(self) ==
    IF OutOfUnitRange(self.warning_factor) THEN Err("Warning threshold", self.warning_factor)
    ELSE IF OutOfUnitRange(self.shutdown_factor)
         THEN Err("Shutdown threshold", self.shutdown_factor)
    ELSE IF OutOfUnitRange(self.safety_factor) THEN Err("Safety factor", self.safety_factor)
    ELSE IF FGe(self.warning_factor, self.shutdown_factor)
         THEN Err("Warning threshold not below shutdown threshold", self.warning_factor)
    ELSE Ok(<<>>)

\* SafetyMargins::effective_warning
effective_warning(self, rated_moment) ==
    FMul(FMul(rated_moment, self.warning_factor), self.safety_factor)

\* SafetyMargins::effective_shutdown
effective_shutdown(self, rated_moment) ==
    FMul(FMul(rated_moment, self.shutdown_factor), self.safety_factor)

\* MomentLimiter::new
MomentLimiter_new(rated_moment, margins) ==
    IF ~SafetyMargins_validate(margins).ok THEN SafetyMargins_validate(margins)
    ELSE Ok([rated_moment |-> rated_moment, margins |-> margins, enabled |-> TRUE,
             epsilon |-> Rat(1, 100)])

\* a variant that compares with the thresholds themselves
check_NoEpsilon(self, current_moment) ==
    IF ~self.enabled THEN "Disabled"
    ELSE IF FGt(current_moment, effective_shutdown(self.margins, self.rated_moment))
         THEN "Shutdown"
    ELSE IF FGt(current_moment, effective_warning(self.margins, self.rated_moment))
         THEN "Warning"
    ELSE "Normal"

\* MomentLimiter::check
check(self, current_moment) ==
    LET shutdown == effective_shutdown(self.margins, self.rated_moment)
        warning  == effective_warning(self.margins, self.rated_moment)
    IN  IF ~self.enabled THEN "Disabled"
        ELSE IF FGt(current_moment, FSub(shutdown, self.epsilon)) THEN "Shutdown"
        ELSE IF FGt(current_moment, FSub(warning, self.epsilon)) THEN "Warning"
        ELSE "Normal"

\* TowerCrane::new (the fields the operations below read)
TowerCrane_new(jib_length, max_moment) ==
    [jib |-> [length |-> jib_length, min_radius |-> Fin(20), max_radius |-> jib_length],
     trolley_position |-> Fin(50),
     max_moment |-> max_moment,
     moment_limiter |-> MomentLimiter_new(max_moment, SafetyMargins_standard).val]

\* TowerCrane::load_moment, TowerMoment::from_load
load_moment(self, load) == FMul(load, self.trolley_position)

\* TowerCrane::capacity_at_current_position
capacity_at_current_position(self) ==
    IF FLt(self.trolley_position, Rat(1, 100)) THEN Fin(0)
    ELSE FDiv(self.max_moment, self.trolley_position)

\* a variant that excludes the two ends of the jib range
capacity_at_radius_OpenRange(self, radius) ==
    IF FLe(radius, self.jib.min_radius) THEN Fin(0)
    ELSE IF FGe(radius, self.jib.max_radius) THEN Fin(0)
    ELSE FDiv(self.max_moment, radius)

\* TowerCrane::capacity_at_radius
capacity_at_radius(self, radius) ==
    IF FLt(radius, self.jib.min_radius) THEN Fin(0)
    ELSE IF FGt(radius, self.jib.max_radius) THEN Fin(0)
    ELSE FDiv(self.max_moment, radius)

\* TowerCrane::set_trolley_position: what it returns
set_trolley_position(self, radius) ==
    IF FLt(radius, self.jib.min_radius)
    THEN Err("RadiusTooSmall", [requested |-> radius, minimum |-> self.jib.min_radius])
    ELSE IF FGt(radius, self.jib.max_radius)
    THEN Err("RadiusTooLarge", [requested |-> radius, maximum |-> self.jib.max_radius])
    ELSE Ok(<<>>)

\* TowerCrane::check_moment_limiter
check_moment_limiter(self, load) == check(self.moment_limiter, load_moment(self, load))

\* the TowerLiftAnalysis of an accepted lift
TowerLiftAnalysis(self, load, limiter_status) ==
    [load |-> load, radius |-> self.trolley_position,
     load_moment |-> load_moment(self, load), max_moment |-> self.max_moment,
     capacity |-> capacity_at_current_position(self),
     utilization |-> FDiv(load, capacity_at_current_position(self)),
     limiter_status |-> limiter_status, is_safe |-> limiter_status # "Shutdown"]

\* a variant that does not consult the moment limiter
validate_lift_NoLimiter(self, load) ==
    IF FGt(load_moment(self, load), self.max_moment)
    THEN Err("MomentExceeded", [load_moment |-> load_moment(self, load),
                                max_moment |-> self.max_moment])
    ELSE IF FLt(self.trolley_position, self.jib.min_radius)
    THEN Err("RadiusTooSmall", [requested |-> self.trolley_position,
                                minimum |-> self.jib.min_radius])
    ELSE IF FGt(self.trolley_position, self.jib.max_radius)
    THEN Err("RadiusTooLarge", [requested |-> self.trolley_position,
                                maximum |-> self.jib.max_radius])
    ELSE Ok(TowerLiftAnalysis(self, load, check_moment_limiter(self, load)))

\* TowerCrane::validate_lift
validate_lift(self, load) ==
    IF FGt(load_moment(self, load), self.max_moment)
    THEN Err("MomentExceeded", [load_moment |-> load_moment(self, load),
                                max_moment |-> self.max_moment])
    ELSE IF FLt(self.trolley_position, self.jib.min_radius)
    THEN Err("RadiusTooSmall", [requested |-> self.trolley_position,
                                minimum |-> self.jib.min_radius])
    ELSE IF FGt(self.trolley_position, self.jib.max_radius)
    THEN Err("RadiusTooLarge", [requested |-> self.trolley_position,
                                maximum |-> self.jib.max_radius])
    ELSE IF check_moment_limiter(self, load) = "Shutdown"
    THEN Err("MomentLimiterShutdown", [current_moment |-> load_moment(self, load)])
    ELSE Ok(TowerLiftAnalysis(self, load, check_moment_limiter(self, load)))

----------------------------------------------------------------------------
(* Chart packages and the chart library (src/src/capacity/load_chart.rs,   *)
(* src/src/capacity/chart_library.rs).  A String is the sequence of its    *)
(* characters, so that format! is concatenation.                           *)

\* a LoadChart value: the fields the operations read
LoadChart(id, config, booms, rows) ==
    [id |-> id, configuration |-> config,
     capacity_data |-> [boom_lengths |-> booms, data |-> rows]]

\* a LoadChartPackage value
LoadChartPackage(manufacturer, model, package_charts) ==
    [crane_info |-> [manufacturer |-> manufacturer, model |-> model],
     charts |-> package_charts]

\* a variant that puts the new chart in front
add_chart_InFront(self, chart) == [self EXCEPT !.charts = <<chart>> \o @]

\* LoadChartPackage::add_chart
add_chart(self, chart) == [self EXCEPT !.charts = Append(@, chart)]

\* LoadChartPackage::find_chart: Some(chart) as <<chart>>, None as <<>>
find_chart(self, config) ==
    LET k == Position({i \in DOMAIN self.charts :
                          matches_configuration(self.charts[i], config)})
    IN  IF k = 0 THEN <<>> ELSE <<self.charts[k]>>

\* format!("{}:{}", manufacturer, model)
PackageKey(manufacturer, model) == manufacturer \o <<":">> \o model

\* ChartLibrary::new
ChartLibrary_new == [key \in {} |-> <<>>]

\* HashMap::insert
Insert(map, key, value) ==
    [k \in DOMAIN map \cup {key} |-> IF k = key THEN value ELSE map[k]]

\* ChartLibrary::add_package: the packages afterwards
add_package(self, package) ==
    Insert(self, PackageKey(package.crane_info.manufacturer, package.crane_info.model),
           package)

\* ChartLibrary::get_package
get_package(self, manufacturer, model) ==
    IF PackageKey(manufacturer, model) \in DOMAIN self
    THEN <<self[PackageKey(manufacturer, model)]>>
    ELSE <<>>

\* ChartLibrary::remove_package: the packages afterwards
remove_package(self, manufacturer, model) ==
    [k \in DOMAIN self \ {PackageKey(manufacturer, model)} |-> self[k]]

\* ChartLibrary::is_empty
is_empty(self) == DOMAIN self = {}

\* ChartLibrary::package_count
package_count(self) == Cardinality(DOMAIN self)

\* the concatenation of a sequence of sequences
RECURSIVE Concat(_)
Concat(seqs) == IF seqs = <<>> THEN <<>> ELSE Head(seqs) \o Concat(Tail(seqs))

\* validate_chart: the errors of the points of one row
PointErrors(row, boom_idx) ==
    Concat([j \in DOMAIN row |->
               (IF to_distance(row[j][1]).ok THEN <<>>
                ELSE << <<"invalid radius unit", boom_idx, j - 1, to_distance(row[j][1])>> >>)
               \o (IF to_mass(row[j][2]).ok THEN <<>>
                   ELSE << <<"invalid capacity unit", boom_idx, j - 1,
                             to_mass(row[j][2])>> >>)])

\* a variant that reports the first bad boom-length entry only
BoomLengthErrors_FirstOnly(chart) ==
    LET bad == {i \in DOMAIN chart.capacity_data.boom_lengths :
                   ~to_distance(chart.capacity_data.boom_lengths[i]).ok}
    IN  IF bad = {} THEN <<>>
        ELSE << <<"Boom length", Position(bad) - 1,
                  to_distance(chart.capacity_data.boom_lengths[Position(bad)])>> >>

\* validate_chart: the errors of the boom-length entries (indices from 0)
BoomLengthErrors(chart) ==
    Concat([i \in DOMAIN chart.capacity_data.boom_lengths |->
               IF to_distance(chart.capacity_data.boom_lengths[i]).ok THEN <<>>
               ELSE << <<"Boom length", i - 1,
                         to_distance(chart.capacity_data.boom_lengths[i])>> >>])

\* validate_chart: Ok(()) or Err(errors)
validate_chart(chart) ==
    LET errors ==
            BoomLengthErrors(chart)
            \o Concat([i \in DOMAIN chart.capacity_data.data |->
                          PointErrors(chart.capacity_data.data[i], i - 1)])
            \o (IF to_distance(chart.configuration.boom.length).ok THEN <<>>
                ELSE << <<"Boom configuration",
                          to_distance(chart.configuration.boom.length)>> >>)
            \o (IF Len(chart.configuration.counterweight) = 1
                   /\ ~to_mass(chart.configuration.counterweight[1].weight).ok
                THEN << <<"Counterweight configuration",
                          to_mass(chart.configuration.counterweight[1].weight)>> >>
                ELSE <<>>)
            \o (IF Len(chart.capacity_data.boom_lengths) # Len(chart.capacity_data.data)
                THEN << <<"Mismatch", Len(chart.capacity_data.boom_lengths),
                          Len(chart.capacity_data.data)>> >>
                ELSE <<>>)
    IN  IF errors = <<>> THEN Ok(<<>>) ELSE [ok |-> FALSE, errors |-> errors]

\* ValidationReport::add_errors for every failing chart of one package
PackageErrors(package) ==
    Concat([c \in DOMAIN package.charts |->
               IF validate_chart(package.charts[c]).ok THEN <<>>
               ELSE [e \in DOMAIN validate_chart(package.charts[c]).errors |->
                        [chart_id |-> package.charts[c].id,
                         error |-> validate_chart(package.charts[c]).errors[e]]]])

\* ChartLibrary::validate_all: Ok(report), the report being its errors map
validate_all(self) ==
    Ok([errors |-> [k \in {key \in DOMAIN self : PackageErrors(self[key]) # <<>>} |->
                       PackageErrors(self[k])]])

\* chart_library::ValidationReport::is_valid
is_valid(self) == DOMAIN self.errors = {}

\* chart_library::ValidationReport::error_count
RECURSIVE error_count_in(_, _)
error_count_in(self, keys) ==
    IF keys = {} THEN 0
    ELSE LET k == CHOOSE key \in keys : TRUE
         IN  Len(self.errors[k]) + error_count_in(self, keys \ {k})

error_count(self) == error_count_in(self, DOMAIN self.errors)

----------------------------------------------------------------------------
(* The lift validation report (src/src/capacity/lift_validation.rs).       *)

\* lift_validation::ValidationReport::new
ValidationReport_new ==
    [overall_status |-> "Approved", checks |-> <<>>, warnings |-> <<>>,
     critical_issues |-> <<>>, recommendations |-> <<>>]

\* ValidationCheck
ValidationCheck(name, status, details) ==
    [name |-> name, status |-> status, details |-> details]

\* format!("{}: {}", check.name, check.details)
CheckLine(item) == <<item.name, ": ", item.details>>

\* a variant in which any warning sets ApprovedWithWarnings
add_check_WarningOverrides(self, item) ==
    IF item.status = "Fail"
    THEN [self EXCEPT !.overall_status = "Rejected",
                      !.critical_issues = Append(@, CheckLine(item)),
                      !.checks = Append(@, item)]
    ELSE IF item.status = "Warning"
    THEN [self EXCEPT !.overall_status = "ApprovedWithWarnings",
                      !.warnings = Append(@, CheckLine(item)),
                      !.checks = Append(@, item)]
    ELSE [self EXCEPT !.checks = Append(@, item)]

\* lift_validation::ValidationReport::add_check: the report afterwards
add_check(self, item) ==
    IF item.status = "Fail"
    THEN [self EXCEPT !.overall_status = "Rejected",
                      !.critical_issues = Append(@, CheckLine(item)),
                      !.checks = Append(@, item)]
    ELSE IF item.status = "Warning"
    THEN [self EXCEPT !.overall_status =
                          IF @ = "Approved" THEN "ApprovedWithWarnings" ELSE @,
                      !.warnings = Append(@, CheckLine(item)),
                      !.checks = Append(@, item)]
    ELSE [self EXCEPT !.checks = Append(@, item)]

----------------------------------------------------------------------------
(* Bounds validation of a load chart (src/src/capacity/load_chart.rs).     *)

\* min_by / max_by over the converted values: the least and the greatest
LeastOf(values) == values[MinBy(values, DOMAIN values)]

GreatestOf(values) == values[MaxBy(values, DOMAIN values)]

\* `v >= *min && v <= *max`
InRange(v, values) == FGe(v, LeastOf(values)) /\ FLe(v, GreatestOf(values))

\* LoadChart::is_boom_valid
is_boom_valid(self, boom_length) ==
    IF ~boom_lengths_of(self).ok THEN UnitError(boom_lengths_of(self))
    ELSE IF Len(boom_lengths_of(self).val) = 0 THEN Ok(FALSE)
    ELSE Ok(InRange(boom_length, boom_lengths_of(self).val))

\* the loop of is_radius_valid over the rows idxs, from position k on
RECURSIVE RadiusValidFrom(_, _, _, _)
RadiusValidFrom(self, idxs, k, radius) ==
    IF k > Len(idxs) THEN Ok(FALSE)
    ELSE LET points == capacity_points(self, idxs[k])
         IN  IF ~points.ok THEN UnitError(points)
             ELSE IF Len(points.val) = 0 THEN RadiusValidFrom(self, idxs, k + 1, radius)
             ELSE IF InRange(radius, [j \in DOMAIN points.val |-> points.val[j][1]])
                  THEN Ok(TRUE)
             ELSE RadiusValidFrom(self, idxs, k + 1, radius)

\* LoadChart::is_radius_valid
is_radius_valid(self, boom_length, radius) ==
    IF ~find_boom_bounds(self, boom_length).ok THEN find_boom_bounds(self, boom_length)
    ELSE RadiusValidFrom(self, find_boom_bounds(self, boom_length).val, 1, radius)

\* LoadChart::validate_bounds
validate_bounds(self, boom_length, radius) ==
    IF ~is_boom_valid(self, boom_length).ok THEN is_boom_valid(self, boom_length)
    ELSE IF ~is_boom_valid(self, boom_length).val THEN BoomLengthNotFound(boom_length)
    ELSE IF ~is_radius_valid(self, boom_length, radius).ok
         THEN is_radius_valid(self, boom_length, radius)
    ELSE IF ~is_radius_valid(self, boom_length, radius).val THEN RadiusOutOfRange(radius)
    ELSE Ok(<<>>)

\* the objects of the other studies, as their constructors leave them
OthersNew ==
    /\ charts = <<>>
    /\ packages = ChartLibrary_new
    /\ tower = TowerCrane_new(Fin(200), Fin(1000000))
    /\ report = ValidationReport_new

----------------------------------------------------------------------------
(* Inputs.                                                                 *)

Weights == {0, MaxWeight}

Coords == (-MaxCoord)..MaxCoord

LoadCoords == {0, MaxLoadCoord}

SupportPositions == {Point3(x, 0, z) : x \in {-MaxCoord, MaxCoord}, z \in {-MaxCoord, MaxCoord}}

\* the load hangs over the crane or out along the z axis
LoadPositions == {Point3(0, 0, z) : z \in LoadCoords}

CranePositions == {Point3(0, 0, 0)}

\* the layout study: pads anywhere on the grid, all of one size
GridPositions == {Point3(x, 0, z) : x \in Coords, z \in Coords}

LayoutLoadPositions == {Point3(x, 0, z) : x \in {0, LayoutLoadCoord}, z \in {0, LayoutLoadCoord}}

LayoutAreas == {Fin(1)}

Areas == {Fin(a) : a \in 1..MaxArea}

Allowables == {Fin(AllowablePsi)}

SafetyFactors == {Fin(a) : a \in 1..MaxSafetyFactor}

----------------------------------------------------------------------------
(* The state machine.                                                      *)

\* no load chart is under study: CapacityData::new() and a bare configuration
NoChart ==
    /\ boom_lengths = <<>>
    /\ data = <<>>
    /\ configuration = ChartConfiguration(OnRubber(<<>>), WithUnit(Fin(0), "ft"), <<>>)

\* GroundBearingAnalysis::new
New(loads) ==
    /\ support_points = <<>>
    /\ crane_weight \in Weights
    /\ crane_cog \in CranePositions
    /\ load_weight \in Weights
    /\ load_position \in loads
    /\ NoChart
    /\ OthersNew
    /\ outcome = NoCall

Init == New(LoadPositions)

InitLayout == New(LayoutLoadPositions)

\* add_support: the name is the caller's; callers number the supports as added
AddSupport(position, contact_area) ==
    /\ outcome = NoCall
    /\ Len(support_points) < MaxSupports
    /\ support_points' = Append(support_points,
           SupportPoint(position, contact_area, Len(support_points) + 1))
    /\ UNCHANGED <<crane_weight, crane_cog, load_weight, load_position, chart_vars,
                   other_vars, outcome>>

CalculateReactions ==
    /\ outcome = NoCall
    /\ outcome' = [op |-> "calculate_reactions", res |-> calculate_reactions(Self)]
    /\ UNCHANGED <<analysis_vars, chart_vars, other_vars>>

ValidateSoilCapacity(allowable_pressure) ==
    /\ outcome = NoCall
    /\ outcome' = [op |-> "validate_soil_capacity",
                   allowable_pressure |-> allowable_pressure,
                   res |-> validate_soil_capacity(Self, allowable_pressure)]
    /\ UNCHANGED <<analysis_vars, chart_vars, other_vars>>

RequiredMatArea(allowable_pressure, safety_factor) ==
    /\ outcome = NoCall
    /\ outcome' = [op |-> "required_mat_area",
                   allowable_pressure |-> allowable_pressure,
                   safety_factor |-> safety_factor,
                   res |-> required_mat_area(Self, allowable_pressure, safety_factor)]
    /\ UNCHANGED <<analysis_vars, chart_vars, other_vars>>

\* the single-threaded caller takes the returned value before its next call
Return ==
    /\ outcome # NoCall
    /\ outcome' = NoCall
    /\ UNCHANGED <<analysis_vars, chart_vars, other_vars>>

Next ==
    \/ \E p \in SupportPositions, a \in Areas : AddSupport(p, a)
    \/ CalculateReactions
    \/ \E q \in Allowables : ValidateSoilCapacity(q)
    \/ \E q \in Allowables, f \in SafetyFactors : RequiredMatArea(q, f)
    \/ Return

Spec == Init /\ [][Next]_vars

\* the layout study: any four pads of the grid, and calculate_reactions
NextLayout ==
    \/ \E p \in GridPositions, a \in LayoutAreas : AddSupport(p, a)
    \/ CalculateReactions
    \/ Return

SpecLayout == InitLayout /\ [][NextLayout]_vars

\* the load study: the four corner pads, the load anywhere on the grid
InitShift == New(GridPositions)

NextShift ==
    \/ \E p \in SupportPositions, a \in LayoutAreas : AddSupport(p, a)
    \/ CalculateReactions
    \/ Return

SpecShift == InitShift /\ [][NextShift]_vars

----------------------------------------------------------------------------
(* The load chart: authored row by row, then queried.                       *)

\* no ground-bearing analysis is under study
NoAnalysis ==
    /\ support_points = <<>>
    /\ crane_weight = 0
    /\ crane_cog = Point3(0, 0, 0)
    /\ load_weight = 0
    /\ load_position = Point3(0, 0, 0)

\* the interpolation study: rows at 50 and 60 ft, radii in feet, pounds
ChartBooms == {WithUnit(Fin(50), "ft"), WithUnit(Fin(60), "ft")}

ChartPoints ==
    { <<WithUnit(Fin(10), "ft"), WithUnit(Fin(100), "lbs")>>,
      <<WithUnit(Rat(201, 20), "ft"), WithUnit(Fin(90), "lbs")>>,
      <<WithUnit(Fin(20), "ft"), WithUnit(Fin(60), "lbs")>>,
      <<WithUnit(Fin(20), "ft"), WithUnit(Fin(40), "lbs")>> }

ChartBoomQueries == {Fin(40), Fin(50), Fin(55)}

ChartRadiusQueries == {Fin(5), Fin(10), Rat(401, 40), Fin(15), Fin(25)}

\* the unit study: the same quantity in several spellings, and unknown units
UnitBooms ==
    { WithUnit(Fin(50), "ft"), WithUnit(Rat(381, 25), "m"), WithUnit(Rat(10001, 200), "ft"),
      WithUnit(Fin(60), "ft"), WithUnit(Fin(50), "furlong") }

UnitPoints ==
    { <<WithUnit(Fin(10), "ft"), WithUnit(Fin(100), "lbs")>>,
      <<WithUnit(Rat(2001, 200), "ft"), WithUnit(Fin(90), "lbs")>>,
      <<WithUnit(Rat(381, 125), "m"), WithUnit(Rat(1, 20), "short tons")>>,
      <<WithUnit(Fin(10), "ft"), WithUnit(Fin(100), "stone")>>,
      <<WithUnit(Fin(10), "rod"), WithUnit(Fin(100), "stone")>>,
      <<WithUnit(Fin(20), "ft"), WithUnit(Fin(60), "lbs")>> }

UnitBoomQueries == {Fin(50), Fin(55)}

UnitRadiusQueries == {Fin(10), Fin(15)}

\* the matching study
Supports ==
    { OnRubber(<<>>), OnRubber(<<"creep">>),
      OnOutriggers([kind |-> "Full"], <<"Full360">>),
      OnOutriggers([kind |-> "Full"], <<"OverRear">>),
      OnOutriggers([kind |-> "Intermediate", percent |-> Fin(50)], <<>>),
      OnOutriggers([kind |-> "Intermediate", percent |-> Fin(75)], <<"OverRear">>),
      OnCrawlers("wide"), OnCrawlers("narrow") }

ConfigBooms ==
    { WithUnit(Fin(100), "ft"), WithUnit(Rat(20001, 200), "ft"),
      WithUnit(Rat(10001, 100), "ft"), WithUnit(Rat(762, 25), "m"),
      WithUnit(Fin(100), "cubit") }

CounterweightConfiguration(weight, config) == [weight |-> weight, configuration |-> config]

Counterweights ==
    { <<>>,
      <<CounterweightConfiguration(WithUnit(Fin(1000), "lbs"), "Standard")>>,
      <<CounterweightConfiguration(WithUnit(Rat(1, 2), "short tons"), "Standard")>>,
      <<CounterweightConfiguration(WithUnit(Rat(2001, 2), "lbs"), "Heavy")>>,
      <<CounterweightConfiguration(WithUnit(Fin(1001), "lbs"), "Heavy")>>,
      <<CounterweightConfiguration(WithUnit(Fin(1000), "stone"), "Standard")>> }

Configurations ==
    {ChartConfiguration(s, b, c) : s \in Supports, b \in ConfigBooms, c \in Counterweights}

\* CapacityData::new() in a chart with a bare configuration
InitChart == NoAnalysis /\ NoChart /\ OthersNew /\ outcome = NoCall

\* a chart with no capacity data yet and any of the configurations
InitMatch ==
    /\ NoAnalysis
    /\ boom_lengths = <<>>
    /\ data = <<>>
    /\ configuration \in Configurations
    /\ OthersNew
    /\ outcome = NoCall

\* the author starts the row of one more boom length
AddBoomLength(length) ==
    /\ outcome = NoCall
    /\ Len(boom_lengths) < MaxRows
    /\ boom_lengths' = Append(boom_lengths, length)
    /\ data' = Append(data, <<>>)
    /\ UNCHANGED <<analysis_vars, configuration, other_vars, outcome>>

\* the author writes one more (radius, capacity) pair in the row being written
AddPoint(radius, capacity) ==
    /\ outcome = NoCall
    /\ Len(data) > 0
    /\ Len(data[Len(data)]) < MaxPoints
    /\ data' = [data EXCEPT ![Len(data)] = Append(@, <<radius, capacity>>)]
    /\ UNCHANGED <<analysis_vars, boom_lengths, configuration, other_vars, outcome>>

CapacityExact(boom_length, radius) ==
    /\ outcome = NoCall
    /\ outcome' = [op |-> "capacity_exact", boom_length |-> boom_length,
                   radius |-> radius,
                   res |-> capacity_exact(Chart, boom_length, radius)]
    /\ UNCHANGED <<analysis_vars, chart_vars, other_vars>>

CapacityInterpolated(boom_length, radius) ==
    /\ outcome = NoCall
    /\ outcome' = [op |-> "capacity_interpolated", boom_length |-> boom_length,
                   radius |-> radius,
                   res |-> capacity_interpolated(Chart, boom_length, radius)]
    /\ UNCHANGED <<analysis_vars, chart_vars, other_vars>>

MatchesConfiguration(config) ==
    /\ outcome = NoCall
    /\ outcome' = [op |-> "matches_configuration", config |-> config,
                   res |-> matches_configuration(Chart, config)]
    /\ UNCHANGED <<analysis_vars, chart_vars, other_vars>>

NextChart ==
    \/ \E l \in ChartBooms : AddBoomLength(l)
    \/ \E pt \in ChartPoints : AddPoint(pt[1], pt[2])
    \/ \E b \in ChartBoomQueries, r \in ChartRadiusQueries : CapacityInterpolated(b, r)
    \/ Return

SpecChart == InitChart /\ [][NextChart]_vars

\* the unit study writes rows of at most two points
AddUnitPoint(radius, capacity) ==
    /\ Len(data) > 0
    /\ Len(data[Len(data)]) < MaxPoints - 1
    /\ AddPoint(radius, capacity)

NextUnits ==
    \/ \E l \in UnitBooms : AddBoomLength(l)
    \/ \E pt \in UnitPoints : AddUnitPoint(pt[1], pt[2])
    \/ \E b \in UnitBoomQueries, r \in UnitRadiusQueries : CapacityExact(b, r)
    \/ \E b \in UnitBoomQueries, r \in UnitRadiusQueries : CapacityInterpolated(b, r)
    \/ Return

SpecUnits == InitChart /\ [][NextUnits]_vars

NextMatch ==
    \/ \E q \in Configurations : MatchesConfiguration(q)
    \/ Return

SpecMatch == InitMatch /\ [][NextMatch]_vars

----------------------------------------------------------------------------
(* Vocabulary of the properties.                                           *)

Returned(op) == outcome.op = op

IsErr(res, kind) == ~res.ok /\ res.err = kind

FourSupports == Len(support_points) = 4

NonZeroSpans == XSpan(Self) # Fin(0) /\ ZSpan(Self) # Fin(0)

PositiveTotal == crane_weight + load_weight > 0

PositiveWeights == crane_weight > 0 /\ load_weight > 0

\* no two supports stand at the same place
DistinctPads ==
    \A i, j \in Indices(Self) :
        i # j => support_points[i].position # support_points[j].position

\* the combined centre of gravity lies outside the supports' x range or z range
CogOutsideSupports ==
    LET cog == CombinedCog(Self)
    IN  \/ FLt(cog.x, MinOf(PosX(Self))) \/ FGt(cog.x, MaxOf(PosX(Self)))
        \/ FLt(cog.z, MinOf(PosZ(Self))) \/ FGt(cog.z, MaxOf(PosZ(Self)))

ForceSum(res) == SumTo([i \in DOMAIN res.val.reactions |-> res.val.reactions[i].force],
                       Len(res.val.reactions))

----------------------------------------------------------------------------
(* C1: with exactly 4 supports, non-zero x and z spans and positive total  *)
(* weight, a combined centre of gravity outside the supports' x range or z *)
(* range makes calculate_reactions return Err(UnstableConfiguration).      *)
(* Stated for a crane and a load that both weigh something, on four pads   *)
(* at four different places.                                               *)
C1_OutsideSupportsIsUnstable ==
    (Returned("calculate_reactions") /\ FourSupports /\ NonZeroSpans
        /\ PositiveWeights /\ DistinctPads /\ CogOutsideSupports)
    => IsErr(outcome.res, "UnstableConfiguration")

(* C2: every reaction force of an Ok result of calculate_reactions is >= 0. *)
C2_ForcesNonNegative ==
    (Returned("calculate_reactions") /\ outcome.res.ok)
    => \A i \in DOMAIN outcome.res.val.reactions :
           FGe(outcome.res.val.reactions[i].force, Fin(0))

(* C3: for every 4-support analysis with non-zero spans whose               *)
(* calculate_reactions returns Ok, the four forces sum to crane_weight +    *)
(* load_weight.  Stated for a crane and a load that both weigh something,   *)
(* on four pads at four different places.                                   *)
C3_ForcesSumToTotalWeight ==
    (Returned("calculate_reactions") /\ FourSupports /\ NonZeroSpans
        /\ PositiveWeights /\ DistinctPads /\ outcome.res.ok)
    => FEq(ForceSum(outcome.res), TotalWeight(Self))

\* a reachable case of C4's first half: two supports, and a query refused
C4_Witness ==
    /\ Len(support_points) = 2
    /\ Returned("required_mat_area")
    /\ IsErr(outcome.res, "InsufficientSupports")

(* C4: with 0, 1 or 2 supports registered, calculate_reactions,             *)
(* validate_soil_capacity and required_mat_area each return                 *)
(* Err(InsufficientSupports); with 3 or more, none of them does.            *)
C4_InsufficientSupportsIffBelowThree ==
    (Returned("calculate_reactions") \/ Returned("validate_soil_capacity")
        \/ Returned("required_mat_area"))
    => (Len(support_points) < 3 <=> IsErr(outcome.res, "InsufficientSupports"))

\* a reachable case of C5's boundary: max_pressure equal to the allowable, passed
C5_Witness ==
    /\ Returned("validate_soil_capacity")
    /\ calculate_reactions(Self).ok
    /\ FEq(calculate_reactions(Self).val.max_pressure, outcome.allowable_pressure)
    /\ outcome.res.ok

(* C5: validate_soil_capacity(allowable) returns Err(ExceedsAllowable)      *)
(* exactly when calculate_reactions succeeds with max_pressure strictly     *)
(* greater than allowable; max_pressure equal to allowable passes; an error *)
(* of calculate_reactions is returned unchanged.                            *)
C5_ExceedsIffStrictlyOver ==
    Returned("validate_soil_capacity")
    => /\ IsErr(outcome.res, "ExceedsAllowable")
            <=> /\ calculate_reactions(Self).ok
                /\ FGt(calculate_reactions(Self).val.max_pressure,
                       outcome.allowable_pressure)
       /\ (calculate_reactions(Self).ok
            /\ FEq(calculate_reactions(Self).val.max_pressure, outcome.allowable_pressure))
          => outcome.res.ok
       /\ ~calculate_reactions(Self).ok => outcome.res = calculate_reactions(Self)

(* C6: in every result of calculate_reactions no support's pressure is      *)
(* greater than max_pressure, and when validate_soil_capacity(allowable)    *)
(* returns Ok every support's pressure is <= allowable.  Stated for a crane *)
(* and a load that both weigh something, on pads at different places.       *)
C6_MaxPressureIsTheMaximum ==
    /\ (Returned("calculate_reactions") /\ PositiveWeights /\ DistinctPads
            /\ outcome.res.ok)
       => \A i \in DOMAIN outcome.res.val.reactions :
              ~FGt(outcome.res.val.reactions[i].pressure, outcome.res.val.max_pressure)
    /\ (Returned("validate_soil_capacity") /\ PositiveWeights /\ DistinctPads
            /\ outcome.res.ok)
       => \A i \in Indices(Self) :
              ~FGt(calculate_reactions(Self).val.reactions[i].pressure,
                   outcome.allowable_pressure)

(* C7: in every Ok result of the 4-support solver with positive total       *)
(* weight, critical_support_index is the lowest index whose force equals    *)
(* the largest force, max_reaction is that force and max_pressure is that   *)
(* force divided by that support's contact area.  Stated for a crane and a  *)
(* load that both weigh something.                                          *)
C7_CriticalSupportHasLargestForce ==
    (Returned("calculate_reactions") /\ FourSupports /\ PositiveWeights /\ outcome.res.ok)
    => LET v == outcome.res.val
           k == v.critical_support_index + 1
       IN  /\ \A i \in 1..4 : ~FGt(v.reactions[i].force, v.reactions[k].force)
           /\ \A i \in 1..(k - 1) : FLt(v.reactions[i].force, v.reactions[k].force)
           /\ FEq(v.max_reaction, v.reactions[k].force)
           /\ v.max_pressure = FDiv(v.reactions[k].force, support_points[k].contact_area)

(* C8: with exactly 4 supports whose x coordinates are all equal or whose   *)
(* z coordinates are all equal, calculate_reactions fails with              *)
(* Err(InvalidConfiguration).  Stated for a crane and a load that both      *)
(* weigh something.                                                         *)
C8_ZeroSpanIsInvalidConfiguration ==
    (Returned("calculate_reactions") /\ FourSupports /\ PositiveWeights /\ ~NonZeroSpans)
    => IsErr(outcome.res, "InvalidConfiguration")

\* the analysis with every support's contact_area replaced by `area`
Resized(self, area) ==
    [self EXCEPT !.support_points =
        [i \in DOMAIN self.support_points |->
            [self.support_points[i] EXCEPT !.contact_area = area]]]

\* the returned area is what the formula gives
AreaIsReactionOverDeratedAllowable ==
    outcome.res.val = FDiv(calculate_reactions(Self).val.max_reaction,
                           FDiv(outcome.allowable_pressure, outcome.safety_factor))

\* pads resized to the returned area bring max_pressure to the allowable, and pass
RoundTripHolds ==
    /\ calculate_reactions(Resized(Self, outcome.res.val)).ok
    /\ FEq(calculate_reactions(Resized(Self, outcome.res.val)).val.max_pressure,
           outcome.allowable_pressure)
    /\ validate_soil_capacity(Resized(Self, outcome.res.val),
                              outcome.allowable_pressure).ok

SquaredDistance(i) ==
    LET p == support_points[i].position
    IN  (p.x - load_position.x) * (p.x - load_position.x)
        + (p.y - load_position.y) * (p.y - load_position.y)
        + (p.z - load_position.z) * (p.z - load_position.z)

\* support k is the nearest to the load, and the first of the equally near
FirstNearest(k) ==
    /\ \A j \in Indices(Self) : SquaredDistance(k) <= SquaredDistance(j)
    /\ \A j \in 1..(k - 1) : SquaredDistance(k) < SquaredDistance(j)

\* a reachable case of C10: three supports, two of them equally near the load
C10_Witness ==
    /\ Returned("calculate_reactions") /\ Len(support_points) = 3 /\ PositiveWeights
    /\ outcome.res.ok
    /\ outcome.res.val.critical_support_index = 1
    /\ SquaredDistance(2) = SquaredDistance(3)
    /\ support_points[1].contact_area # support_points[2].contact_area

(* C10: with n >= 3 supports and n # 4, calculate_reactions returns Ok with *)
(* the whole crane_weight + load_weight on the support nearest the load     *)
(* (the lowest index among equally near ones) and force 0 on every other;   *)
(* critical_support_index is that support, max_reaction the total weight    *)
(* and max_pressure the total weight over that support's contact area.      *)
(* With exactly 4 supports the four-point solver's result is returned.      *)
C10_GeneralSolverLoadsNearestSupport ==
    Returned("calculate_reactions")
    => /\ (Len(support_points) >= 3 /\ Len(support_points) # 4)
          => /\ outcome.res.ok
             /\ \E k \in Indices(Self) :
                    /\ FirstNearest(k)
                    /\ \A i \in Indices(Self) :
                           outcome.res.val.reactions[i].force =
                               (IF i = k THEN TotalWeight(Self) ELSE Fin(0))
                    /\ outcome.res.val.critical_support_index = k - 1
                    /\ outcome.res.val.max_reaction = TotalWeight(Self)
                    /\ outcome.res.val.max_pressure =
                           FDiv(TotalWeight(Self), support_points[k].contact_area)
       /\ FourSupports => outcome.res = calculate_four_point_reactions(Self)

\* four pads on the four corners of a rectangle with non-zero sides
Rectangular ==
    /\ FourSupports /\ NonZeroSpans /\ DistinctPads
    /\ \A i \in 1..4 :
           /\ PosX(Self)[i] \in {MinOf(PosX(Self)), MaxOf(PosX(Self))}
           /\ PosZ(Self)[i] \in {MinOf(PosZ(Self)), MaxOf(PosZ(Self))}

\* the combined centre of gravity is the geometric centre of the supports
CogAtCentre ==
    /\ FEq(CombinedCog(Self).x, AvgX(Self))
    /\ FEq(CombinedCog(Self).z, AvgZ(Self))

\* a reachable case of C11: crane and load weigh something, pads of two sizes
C11_Witness ==
    /\ Returned("calculate_reactions") /\ Rectangular /\ CogAtCentre
    /\ PositiveWeights /\ outcome.res.ok
    /\ support_points[1].contact_area # support_points[2].contact_area

(* C11: for a rectangular 4-support layout whose combined centre of gravity *)
(* is at the geometric centre of the supports, calculate_reactions returns  *)
(* Ok and every reaction is (crane_weight + load_weight) / 4, each pressure *)
(* that force over the support's contact area.                              *)
C11_CentredLoadIsSharedEqually ==
    (Returned("calculate_reactions") /\ Rectangular /\ CogAtCentre)
    => /\ outcome.res.ok
       /\ \A i \in 1..4 :
              /\ outcome.res.val.reactions[i].force = FDiv(TotalWeight(Self), Fin(4))
              /\ outcome.res.val.reactions[i].pressure =
                     FDiv(FDiv(TotalWeight(Self), Fin(4)), support_points[i].contact_area)

\* the same analysis with the load at q
LoadAt(q) == [Self EXCEPT !.load_position = q]

\* squared horizontal distance from point q to support i
HorizontalSq(q, i) ==
    LET p == support_points[i].position
    IN  (p.x - q.x) * (p.x - q.x) + (p.z - q.z) * (p.z - q.z)

\* support j stands on the corner diagonally opposite support i
Opposite(i, j) ==
    /\ support_points[i].position.x # support_points[j].position.x
    /\ support_points[i].position.z # support_points[j].position.z

\* +1 when support i is on the high side of the centreline of an axis, else -1
SideX(i) == IF FGt(PosX(Self)[i], AvgX(Self)) THEN 1 ELSE -1

SideZ(i) == IF FGt(PosZ(Self)[i], AvgZ(Self)) THEN 1 ELSE -1

\* from load_position to q the load moves towards support i's side of the
\* centreline along at least one axis, and away from it along neither
TowardsSupport(q, i) ==
    /\ (q.x - load_position.x) * SideX(i) >= 0
    /\ (q.z - load_position.z) * SideZ(i) >= 0
    /\ q # load_position

\* support i's reaction rises, its opposite's does not, with the load at q
ReactionShifts(q, i) ==
    LET first  == outcome.res.val.reactions
        second == calculate_reactions(LoadAt(q)).val.reactions
    IN  /\ FGt(second[i].force, first[i].force)
        /\ \A j \in 1..4 : Opposite(i, j) => ~FGt(second[j].force, first[j].force)

(* C12 as claimed: for two 4-support analyses that differ only in load      *)
(* position and both return Ok, if the second load position is strictly     *)
(* closer in horizontal distance to support S, then S's reaction is         *)
(* strictly greater in the second and the reaction of the support           *)
(* diagonally opposite S is not greater.  Stated for a rectangular layout   *)
(* and a crane and a load that both weigh something.                        *)
C12_CloserLoadRaisesReaction ==
    (Returned("calculate_reactions") /\ Rectangular /\ PositiveWeights /\ outcome.res.ok)
    => \A q \in GridPositions, i \in 1..4 :
           (calculate_reactions(LoadAt(q)).ok
                /\ HorizontalSq(q, i) < HorizontalSq(load_position, i))
           => ReactionShifts(q, i)

\* a reachable case of C12: the load moves diagonally towards a pad, both stable
C12_Witness ==
    /\ Returned("calculate_reactions") /\ Rectangular /\ PositiveWeights /\ outcome.res.ok
    /\ \E q \in GridPositions, i \in 1..4 :
           /\ calculate_reactions(LoadAt(q)).ok
           /\ TowardsSupport(q, i)
           /\ q.x # load_position.x /\ q.z # load_position.z
           /\ SideX(i) = -1

(* C12 amended: for two analyses on a rectangular 4-support layout with     *)
(* positive load weight that differ only in load position and both return   *)
(* Ok, if the second load position lies towards S's side of the support     *)
(* centreline along x or z and away from it along neither, then S's         *)
(* reaction is strictly greater in the second and the reaction of the       *)
(* support diagonally opposite S is not greater.                            *)
C12_LoadTowardsSupportRaisesReaction ==
    (Returned("calculate_reactions") /\ Rectangular /\ load_weight > 0 /\ outcome.res.ok)
    => \A q \in GridPositions, i \in 1..4 :
           (calculate_reactions(LoadAt(q)).ok /\ TowardsSupport(q, i))
           => ReactionShifts(q, i)

\* the same analysis had supports i and j been added in each other's place
Swapped(i, j) ==
    [Self EXCEPT !.support_points =
        [k \in DOMAIN support_points |->
            IF k = i THEN support_points[j]
            ELSE IF k = j THEN support_points[i] ELSE support_points[k]]]

\* the reaction reported for the support called name
ReactionOf(res, name) ==
    LET k == CHOOSE k \in DOMAIN res.val.reactions : res.val.reactions[k].name = name
    IN  res.val.reactions[k]

\* two results of calculate_reactions that differ at most in the order of the list
SameUpToOrder(a, b) ==
    /\ a.ok = b.ok
    /\ ~a.ok => a.err = b.err
    /\ a.ok => /\ \A k \in DOMAIN a.val.reactions :
                      LET name == a.val.reactions[k].name
                      IN  /\ ReactionOf(b, name).force = a.val.reactions[k].force
                          /\ ReactionOf(b, name).pressure = a.val.reactions[k].pressure
               /\ a.val.max_reaction = b.val.max_reaction
               /\ a.val.max_pressure = b.val.max_pressure

(* C13: two analyses with the same crane and load data whose add_support    *)
(* calls register the same supports in a different order give the same      *)
(* outcome kind from calculate_reactions, the same force and pressure for   *)
(* each named support, the same max_reaction and max_pressure, and the same *)
(* verdict from validate_soil_capacity.  Stated for a crane and a load that *)
(* both weigh something, on pads at different places.                       *)
C13_InsertionOrderIsInsignificant ==
    /\ (Returned("calculate_reactions") /\ PositiveWeights /\ DistinctPads)
       => \A i, j \in Indices(Self) :
              i < j => SameUpToOrder(outcome.res, calculate_reactions(Swapped(i, j)))
    /\ (Returned("validate_soil_capacity") /\ PositiveWeights /\ DistinctPads)
       => \A i, j \in Indices(Self) :
              i < j => validate_soil_capacity(Swapped(i, j),
                           outcome.allowable_pressure).ok = outcome.res.ok

----------------------------------------------------------------------------
(* Vocabulary of the load-chart properties.                                 *)

\* the boom lengths of the rows, in feet (when every entry converts)
BoomFeet == boom_lengths_of(Chart).val

\* the (radius in feet, capacity in pounds) points of row i (when they convert)
RowPoints(i) == capacity_points(Chart, i).val

\* every boom-length entry, and every point of every row, has a known unit
AllUnitsKnown ==
    /\ boom_lengths_of(Chart).ok
    /\ \A i \in DOMAIN data : capacity_points(Chart, i).ok

\* rows whose boom length is the largest of those <= b + 0.1 ft
LowerRows(b) ==
    {i \in DOMAIN BoomFeet :
        /\ FLe(BoomFeet[i], FAdd(b, Rat(1, 10)))
        /\ \A j \in DOMAIN BoomFeet :
               FLe(BoomFeet[j], FAdd(b, Rat(1, 10))) => FLe(BoomFeet[j], BoomFeet[i])}

\* rows whose boom length is the smallest of those >= b - 0.1 ft
UpperRows(b) ==
    {i \in DOMAIN BoomFeet :
        /\ FLe(FSub(b, Rat(1, 10)), BoomFeet[i])
        /\ \A j \in DOMAIN BoomFeet :
               FLe(FSub(b, Rat(1, 10)), BoomFeet[j]) => FLe(BoomFeet[i], BoomFeet[j])}

\* the radius-interpolated capacity of row i at radius r
RowCapacity(i, r) == interpolate_radius(Chart, i, r).val

(* C14: capacity_interpolated(b, r) is bilinear, radius axis first: with    *)
(* lower a row of the largest boom length <= b + 0.1 ft and upper a row of  *)
(* the smallest boom length >= b - 0.1 ft, an Ok result is the              *)
(* radius-interpolated capacity of that row when lower and upper are the    *)
(* same boom length, and otherwise                                          *)
(* c_lower + ((b - L_lower) / (L_upper - L_lower)) * (c_upper - c_lower).   *)
C14_InterpolationIsBilinear ==
    (Returned("capacity_interpolated") /\ AllUnitsKnown /\ outcome.res.ok)
    => LET b == outcome.boom_length
           r == outcome.radius
       IN  \E lo \in LowerRows(b), up \in UpperRows(b) :
               IF BoomFeet[lo] = BoomFeet[up]
               THEN outcome.res.val = RowCapacity(lo, r)
               ELSE outcome.res.val =
                        FAdd(RowCapacity(lo, r),
                             FMul(FDiv(FSub(b, BoomFeet[lo]),
                                       FSub(BoomFeet[up], BoomFeet[lo])),
                                  FSub(RowCapacity(up, r), RowCapacity(lo, r))))

\* row i is the one row that bounds boom length b on both sides, and has
\* exactly that boom length
ExactRow(i, b) ==
    /\ AllUnitsKnown
    /\ BoomFeet[i] = b
    /\ LowerRows(b) = {i}
    /\ UpperRows(b) = {i}

\* points j and k of a row are neighbours by radius: j lies below k and no
\* other point of the row has its radius in between or on either of them
Adjacent(points, j, k) ==
    /\ FLt(points[j][1], points[k][1])
    /\ \A m \in DOMAIN points \ {j, k} :
           ~(FLe(points[j][1], points[m][1]) /\ FLe(points[m][1], points[k][1]))

\* c1 + ((r - r1) / (r2 - r1)) * (c2 - c1) for the points j and k
Between(points, j, k, r) ==
    FAdd(points[j][2],
         FMul(FDiv(FSub(r, points[j][1]), FSub(points[k][1], points[j][1])),
              FSub(points[k][2], points[j][2])))

\* r lies strictly between the radii of j and k
StrictlyBetween(points, j, k, r) ==
    FLt(points[j][1], r) /\ FLt(r, points[k][1])

\* r lies between the radii of j and k and more than 0.1 ft from both
WellBetween(points, j, k, r) ==
    /\ FLt(FAdd(points[j][1], Rat(1, 10)), r)
    /\ FLt(r, FSub(points[k][1], Rat(1, 10)))

(* C15 as stated: within one boom-length row (exact boom match), a query    *)
(* radius r between two adjacent stored points (r1, c1) and (r2, c2)        *)
(* returns c1 + ((r - r1) / (r2 - r1)) * (c2 - c1), so the midpoint radius  *)
(* returns (c1 + c2) / 2.                                                   *)
C15_BetweenPointsIsLinear ==
    Returned("capacity_interpolated")
    => \A i \in DOMAIN data :
           ExactRow(i, outcome.boom_length)
           => LET points == RowPoints(i)
              IN  \A j, k \in DOMAIN points :
                      (/\ Adjacent(points, j, k)
                       /\ StrictlyBetween(points, j, k, outcome.radius))
                      => outcome.res = Ok(Between(points, j, k, outcome.radius))

C15_Witness ==
    /\ Returned("capacity_interpolated")
    /\ \E i \in DOMAIN data :
           /\ ExactRow(i, outcome.boom_length)
           /\ \E j, k \in DOMAIN RowPoints(i) :
                  /\ Adjacent(RowPoints(i), j, k)
                  /\ WellBetween(RowPoints(i), j, k, outcome.radius)
                  /\ outcome.radius = FDiv(FAdd(RowPoints(i)[j][1], RowPoints(i)[k][1]), Fin(2))
                  /\ outcome.res = Ok(FDiv(FAdd(RowPoints(i)[j][2], RowPoints(i)[k][2]), Fin(2)))
                  /\ RowPoints(i)[j][2] # RowPoints(i)[k][2]

(* C15: within one boom-length row (exact boom match, no other row within   *)
(* 0.1 ft of the query), a query radius r that lies between two stored      *)
(* points (r1, c1) and (r2, c2) adjacent by radius and more than 0.1 ft     *)
(* from both returns c1 + ((r - r1) / (r2 - r1)) * (c2 - c1); the midpoint  *)
(* radius of two such points more than 0.2 ft apart returns (c1 + c2) / 2.  *)
C15_WellBetweenPointsIsLinear ==
    Returned("capacity_interpolated")
    => \A i \in DOMAIN data :
           ExactRow(i, outcome.boom_length)
           => LET points == RowPoints(i)
              IN  \A j, k \in DOMAIN points :
                      (/\ Adjacent(points, j, k)
                       /\ WellBetween(points, j, k, outcome.radius))
                      => outcome.res = Ok(Between(points, j, k, outcome.radius))

\* no row has a boom length <= b + 0.1 ft, or none has one >= b - 0.1 ft
Unbounded(b) ==
    \/ \A i \in DOMAIN BoomFeet : ~FLe(BoomFeet[i], FAdd(b, Rat(1, 10)))
    \/ \A i \in DOMAIN BoomFeet : ~FLe(FSub(b, Rat(1, 10)), BoomFeet[i])

(* C17 as stated: for every chart, including one with no boom-length rows,  *)
(* capacity_interpolated(b, r) fails with BoomLengthNotFound whenever no    *)
(* row has boom length <= b + 0.1 ft or no row has boom length              *)
(* >= b - 0.1 ft, whatever the rows hold.                                   *)
C17_UnboundedIsBoomLengthNotFound ==
    (/\ Returned("capacity_interpolated")
     /\ boom_lengths_of(Chart).ok
     /\ Unbounded(outcome.boom_length))
    => IsErr(outcome.res, "BoomLengthNotFound")

C17_Witness ==
    /\ Returned("capacity_interpolated")
    /\ boom_lengths_of(Chart).ok
    /\ Len(boom_lengths) = 2
    /\ Unbounded(outcome.boom_length)
    /\ ~capacity_points(Chart, 1).ok
    /\ data[2] = <<>>
    /\ IsErr(outcome.res, "BoomLengthNotFound")
    /\ outcome.res.arg = outcome.boom_length

(* C17: for a chart with at least one boom-length row, all boom-length      *)
(* entries having known units, capacity_interpolated(b, r) fails with       *)
(* BoomLengthNotFound (naming b) whenever no row has boom length            *)
(* <= b + 0.1 ft or no row has boom length >= b - 0.1 ft, and this is       *)
(* decided before any radius lookup: empty rows and rows with unknown units *)
(* make no difference. A chart with no rows fails with NoData instead.      *)
C17_UnboundedInChartWithRows ==
    (Returned("capacity_interpolated") /\ boom_lengths_of(Chart).ok)
    => /\ (Len(boom_lengths) > 0 /\ Unbounded(outcome.boom_length))
          => (/\ IsErr(outcome.res, "BoomLengthNotFound")
              /\ outcome.res.arg = outcome.boom_length)
       /\ Len(boom_lengths) = 0 => IsErr(outcome.res, "NoData")
       /\ IsErr(outcome.res, "BoomLengthNotFound")
          => (Len(boom_lengths) > 0 /\ Unbounded(outcome.boom_length))

\* the bounding rows chosen for boom length b (when they exist)
LowerRow(b) == find_boom_bounds(Chart, b).val[1]

UpperRow(b) == find_boom_bounds(Chart, b).val[2]

RowEmpty(i) == Len(data[i]) = 0

\* row i has points, but none with radius <= r + 0.1 ft or none with radius >= r - 0.1 ft
RowUncovered(i, r) ==
    LET points == RowPoints(i)
        above  == FAdd(r, Rat(1, 10))
        below  == FSub(r, Rat(1, 10))
    IN  /\ Len(data[i]) > 0
        /\ \/ \A j \in DOMAIN points : ~FLe(points[j][1], above)
           \/ \A j \in DOMAIN points : ~FLe(below, points[j][1])

RowCovers(i, r) == ~RowEmpty(i) /\ ~RowUncovered(i, r)

\* the failure that names the query radius
IsRadiusOutOfRange(res, r) == IsErr(res, "RadiusOutOfRange") /\ res.arg = r

(* C18 as stated: when the bounding boom rows exist,                        *)
(* capacity_interpolated(b, r) fails with NoData if a bounding row has no   *)
(* points, and with RadiusOutOfRange if a bounding row is non-empty but has *)
(* no point with radius <= r + 0.1 ft or none with radius >= r - 0.1 ft.    *)
C18_RowFailureByKind ==
    (/\ Returned("capacity_interpolated")
     /\ AllUnitsKnown
     /\ find_boom_bounds(Chart, outcome.boom_length).ok)
    => LET lo == LowerRow(outcome.boom_length)
           up == UpperRow(outcome.boom_length)
           r  == outcome.radius
       IN  /\ (RowEmpty(lo) \/ RowEmpty(up)) => IsErr(outcome.res, "NoData")
           /\ (RowUncovered(lo, r) \/ RowUncovered(up, r))
              => IsErr(outcome.res, "RadiusOutOfRange")

C18_Witness ==
    /\ Returned("capacity_interpolated")
    /\ AllUnitsKnown
    /\ find_boom_bounds(Chart, outcome.boom_length).ok
    /\ LowerRow(outcome.boom_length) # UpperRow(outcome.boom_length)
    /\ RowCovers(LowerRow(outcome.boom_length), outcome.radius)
    /\ Len(data[UpperRow(outcome.boom_length)]) = 2
    /\ RowUncovered(UpperRow(outcome.boom_length), outcome.radius)
    /\ IsRadiusOutOfRange(outcome.res, outcome.radius)

(* C18: when the bounding boom rows exist (all units known),                *)
(* capacity_interpolated(b, r) examines the lower row and then the upper    *)
(* row and fails with the failure of the first that fails: NoData if that   *)
(* row has no points, RadiusOutOfRange (naming r) if it is non-empty but    *)
(* has no point with radius <= r + 0.1 ft or none with radius >= r - 0.1    *)
(* ft. A capacity is returned only when both rows are non-empty and cover   *)
(* r, so a radius covered by only one of them is rejected and nothing is    *)
(* extrapolated beyond a row's ends.                                        *)
C18_FirstFailingRowDecides ==
    (/\ Returned("capacity_interpolated")
     /\ AllUnitsKnown
     /\ find_boom_bounds(Chart, outcome.boom_length).ok)
    => LET lo == LowerRow(outcome.boom_length)
           up == UpperRow(outcome.boom_length)
           r  == outcome.radius
           lower_covers == RowCovers(lo, r)
       IN  /\ RowEmpty(lo) => IsErr(outcome.res, "NoData")
           /\ RowUncovered(lo, r) => IsRadiusOutOfRange(outcome.res, r)
           /\ (lower_covers /\ RowEmpty(up)) => IsErr(outcome.res, "NoData")
           /\ (lower_covers /\ RowUncovered(up, r))
              => IsRadiusOutOfRange(outcome.res, r)
           /\ outcome.res.ok <=> (lower_covers /\ RowCovers(up, r))

\* the rows whose boom length differs from b by less than 0.01 ft
RowsAt(b) ==
    {i \in DOMAIN BoomFeet : FLt(FAbs(FSub(BoomFeet[i], b)), Rat(1, 100))}

\* the points of row i whose radius differs from r by less than 0.01 ft
PointsAt(i, r) ==
    {j \in DOMAIN RowPoints(i) : FLt(FAbs(FSub(RowPoints(i)[j][1], r)), Rat(1, 100))}

\* the first in stored order
First(indices) == CHOOSE i \in indices : \A j \in indices : i <= j

\* the row or a point of it is written in metric units
WrittenInMetric(i) ==
    /\ boom_lengths[i].unit \in MeterUnits
    /\ \E j \in DOMAIN data[i] :
           data[i][j][1].unit \in MeterUnits /\ data[i][j][2].unit \in ShortTonUnits

(* C16: capacity_exact(b, r) performs no interpolation: on unit-converted   *)
(* quantities (the units consulted being known) it returns the stored       *)
(* capacity of the first point whose radius differs from r by less than     *)
(* 0.01 ft within the first row whose boom length differs from b by less    *)
(* than 0.01 ft, whatever unit the chart was written in; it fails with      *)
(* BoomLengthNotFound when no row matches and with RadiusOutOfRange when    *)
(* the matched row has no matching point.                                   *)
C16_ExactLookupTakesFirstMatch ==
    (Returned("capacity_exact") /\ boom_lengths_of(Chart).ok)
    => LET b == outcome.boom_length
           r == outcome.radius
           rows == RowsAt(b)
       IN  IF rows = {}
           THEN IsErr(outcome.res, "BoomLengthNotFound") /\ outcome.res.arg = b
           ELSE capacity_points(Chart, First(rows)).ok
                => LET points == PointsAt(First(rows), r)
                   IN  IF points = {}
                       THEN IsRadiusOutOfRange(outcome.res, r)
                       ELSE /\ outcome.res.ok
                            /\ outcome.res.val = RowPoints(First(rows))[First(points)][2]

C16_Witness ==
    /\ Returned("capacity_exact")
    /\ boom_lengths_of(Chart).ok
    /\ Len(boom_lengths) = 2
    /\ RowsAt(outcome.boom_length) = {1, 2}
    /\ capacity_points(Chart, 1).ok
    /\ WrittenInMetric(1)
    /\ PointsAt(1, outcome.radius) = {1, 2}
    /\ RowPoints(1)[1][2] # RowPoints(1)[2][2]
    /\ data[2] # data[1]
    /\ outcome.res = Ok(RowPoints(1)[1][2])

\* the unit strings that name a length, and those that name a mass
LengthUnits ==
    FootUnits \cup InchUnits \cup MeterUnits \cup CentimeterUnits
        \cup MillimeterUnits \cup YardUnits

MassUnits ==
    PoundUnits \cup KilogramUnits \cup ShortTonUnits \cup MetricTonUnits
        \cup LongTonUnits \cup GramUnits

\* the unrecognised unit strings among the boom-length entries
BadBoomUnits ==
    {boom_lengths[i].unit : i \in {k \in DOMAIN boom_lengths :
                                       boom_lengths[k].unit \notin LengthUnits}}

\* the unrecognised unit strings among the radii and capacities of row i
BadRowUnits(i) ==
    {data[i][j][1].unit : j \in {k \in DOMAIN data[i] :
                                     data[i][k][1].unit \notin LengthUnits}}
    \cup {data[i][j][2].unit : j \in {k \in DOMAIN data[i] :
                                          data[i][k][2].unit \notin MassUnits}}

\* the rows a lookup reads once the boom lengths have converted: the matched
\* row of capacity_exact; the lower bounding row of capacity_interpolated and,
\* when the lower row gave a capacity, the upper bounding row
ConsultedRows ==
    IF Returned("capacity_exact")
    THEN IF RowsAt(outcome.boom_length) = {} THEN {}
         ELSE {First(RowsAt(outcome.boom_length))}
    ELSE IF ~find_boom_bounds(Chart, outcome.boom_length).ok THEN {}
    ELSE {LowerRow(outcome.boom_length)}
         \cup (IF interpolate_radius(Chart, LowerRow(outcome.boom_length),
                                     outcome.radius).ok
               THEN {UpperRow(outcome.boom_length)} ELSE {})

\* the failure is a UnitError that carries one of the given unit strings
IsUnitErrorNaming(res, units) ==
    /\ IsErr(res, "UnitError")
    /\ res.arg.unit \in units
    /\ res.arg.kind \in {"UnknownLengthUnit", "UnknownMassUnit"}

(* C19: capacity_exact and capacity_interpolated return Err(UnitError)      *)
(* carrying the offending unit string whenever any boom-length entry of the *)
(* chart, or any radius or capacity of a row they consult, has an           *)
(* unrecognised unit string; they never return a capacity computed by       *)
(* assuming a default unit for such an entry.                               *)
C19_UnknownUnitIsUnitError ==
    (Returned("capacity_exact") \/ Returned("capacity_interpolated"))
    => IF BadBoomUnits # {}
       THEN IsUnitErrorNaming(outcome.res, BadBoomUnits)
       ELSE LET bad == UNION {BadRowUnits(i) : i \in ConsultedRows}
            IN  /\ bad # {} => IsUnitErrorNaming(outcome.res, bad)
                /\ bad = {} => ~IsErr(outcome.res, "UnitError")

C19_Witness ==
    /\ Returned("capacity_interpolated")
    /\ BadBoomUnits = {}
    /\ find_boom_bounds(Chart, outcome.boom_length).ok
    /\ LowerRow(outcome.boom_length) # UpperRow(outcome.boom_length)
    /\ BadRowUnits(LowerRow(outcome.boom_length)) = {}
    /\ BadRowUnits(UpperRow(outcome.boom_length)) = {"stone"}
    /\ \E j \in DOMAIN data[UpperRow(outcome.boom_length)] :
           FLt(FAbs(FSub(to_distance(data[UpperRow(outcome.boom_length)][j][1]).val,
                         outcome.radius)), Rat(1, 100))
    /\ outcome.res = UnitError(Err("UnknownMassUnit", "stone"))

\* (1) same support variant and, on outriggers, same extension variant
SameSupport(mine, theirs) ==
    /\ mine.kind = theirs.kind
    /\ mine.kind = "OnOutriggers" => mine.extension.kind = theirs.extension.kind

\* (2) both boom lengths convert and differ by less than 0.01 ft
SameBoom(mine, theirs) ==
    /\ mine.length.unit \in LengthUnits
    /\ theirs.length.unit \in LengthUnits
    /\ FLt(FAbs(FSub(to_distance(mine.length).val, to_distance(theirs.length).val)),
           Rat(1, 100))

\* (3) either side has no counterweight, or both convert and differ by less than 1 lb
SameCounterweight(mine, theirs) ==
    \/ mine = <<>>
    \/ theirs = <<>>
    \/ /\ mine[1].weight.unit \in MassUnits
       /\ theirs[1].weight.unit \in MassUnits
       /\ FLt(FAbs(FSub(to_mass(mine[1].weight).val, to_mass(theirs[1].weight).val)),
              Fin(1))

(* C20: matches_configuration(query) is true exactly when (1) the support   *)
(* variants are the same and, for OnOutriggers, the extension variants are  *)
(* the same, ignoring swing restriction and the values inside the variants; *)
(* (2) both boom lengths convert and differ by less than 0.01 ft; and       *)
(* (3) either side has no counterweight or both counterweights convert and  *)
(* differ by less than 1 lb.                                                *)
C20_MatchIsTheThreePartCondition ==
    Returned("matches_configuration")
    => (outcome.res <=>
            /\ SameSupport(configuration.support, outcome.config.support)
            /\ SameBoom(configuration.boom, outcome.config.boom)
            /\ SameCounterweight(configuration.counterweight,
                                 outcome.config.counterweight))

C20_Witness ==
    /\ Returned("matches_configuration")
    /\ outcome.res
    /\ configuration.support.kind = "OnOutriggers"
    /\ configuration.support.extension # outcome.config.support.extension
    /\ configuration.support.swing_restriction # outcome.config.support.swing_restriction
    /\ configuration.boom.length.unit # outcome.config.boom.length.unit
    /\ configuration.boom.length.value # outcome.config.boom.length.value
    /\ configuration.counterweight # <<>>
    /\ outcome.config.counterweight # <<>>
    /\ configuration.counterweight # outcome.config.counterweight

----------------------------------------------------------------------------
(* The tower crane: inputs, operations and specifications.                 *)

\* jib lengths given to TowerCrane::new, ft
JibLengths == {Fin(10), Fin(40), Fin(100), Fin(200)}

\* the rated moment of the cranes, ft-lb
RatedMoment == Fin(1000000)

\* radii asked of the crane, ft
TowerRadii == {Fin(10), Fin(20), Fin(40), Fin(50), Fin(100), Fin(200), Fin(250)}

\* hook loads, lb
TowerLoads == {Fin(0), Fin(8000), Fin(9000), Rat(99999999, 10000), Fin(10000),
               Fin(12000), Fin(25000)}

\* the fields of a SafetyMargins
Factors == {Fin(0), Rat(1, 2), Rat(9, 10), Fin(1), Rat(11, 10), NaN}

SafetyMargins(warning, shutdown, safety) ==
    [warning_factor |-> warning, shutdown_factor |-> shutdown, safety_factor |-> safety]

\* moments given to MomentLimiter::check, ft-lb
Moments == {Fin(500000), Rat(89999999, 100), Rat(89999995, 100), Fin(900000),
            Rat(99999999, 100), Fin(1000000), Fin(1100000), Fin(450000),
            Rat(44999999, 100)}

\* the limiters that are checked: built by MomentLimiter::new, then switched
\* on or off through the public field `enabled`
Limiters ==
    {[MomentLimiter_new(RatedMoment, margins).val EXCEPT !.enabled = enabled] :
        margins \in {SafetyMargins_standard,
                     SafetyMargins(Rat(1, 2), Rat(9, 10), Rat(1, 2)),
                     SafetyMargins(Rat(9, 10), Fin(1), Rat(1, 2))},
        enabled \in BOOLEAN}

NoOthers ==
    /\ charts = <<>>
    /\ packages = ChartLibrary_new
    /\ report = ValidationReport_new

\* TowerCrane::new
InitTower ==
    /\ NoAnalysis
    /\ NoChart
    /\ NoOthers
    /\ \E jib_length \in JibLengths : tower = TowerCrane_new(jib_length, RatedMoment)
    /\ outcome = NoCall

\* TowerCrane::set_trolley_position
SetTrolleyPosition(radius) ==
    /\ outcome = NoCall
    /\ tower' = IF set_trolley_position(tower, radius).ok
                THEN [tower EXCEPT !.trolley_position = radius]
                ELSE tower
    /\ outcome' = [op |-> "set_trolley_position", radius |-> radius,
                   res |-> set_trolley_position(tower, radius)]
    /\ UNCHANGED <<analysis_vars, chart_vars, charts, packages, report>>

\* TowerCrane::capacity_at_radius
CapacityAtRadius(radius) ==
    /\ outcome = NoCall
    /\ outcome' = [op |-> "capacity_at_radius", radius |-> radius,
                   res |-> capacity_at_radius(tower, radius)]
    /\ UNCHANGED <<analysis_vars, chart_vars, other_vars>>

\* TowerCrane::validate_lift
ValidateLift(load) ==
    /\ outcome = NoCall
    /\ outcome' = [op |-> "validate_lift", load |-> load, res |-> validate_lift(tower, load)]
    /\ UNCHANGED <<analysis_vars, chart_vars, other_vars>>

NextTower ==
    \/ \E radius \in TowerRadii : SetTrolleyPosition(radius)
    \/ \E radius \in TowerRadii : CapacityAtRadius(radius)
    \/ \E load \in TowerLoads : ValidateLift(load)
    \/ Return

SpecTower == InitTower /\ [][NextTower]_vars

\* a crane whose limiter is one of Limiters
InitLimiter ==
    /\ NoAnalysis
    /\ NoChart
    /\ NoOthers
    /\ \E limiter \in Limiters :
           tower = [TowerCrane_new(Fin(200), RatedMoment) EXCEPT !.moment_limiter = limiter]
    /\ outcome = NoCall

\* MomentLimiter::new
MomentLimiterNew(rated_moment, margins) ==
    /\ outcome = NoCall
    /\ outcome' = [op |-> "MomentLimiter::new", rated_moment |-> rated_moment,
                   margins |-> margins, res |-> MomentLimiter_new(rated_moment, margins)]
    /\ UNCHANGED <<analysis_vars, chart_vars, other_vars>>

\* MomentLimiter::check
Check(current_moment) ==
    /\ outcome = NoCall
    /\ outcome' = [op |-> "check", current_moment |-> current_moment,
                   res |-> check(tower.moment_limiter, current_moment)]
    /\ UNCHANGED <<analysis_vars, chart_vars, other_vars>>

NextLimiter ==
    \/ \E warning \in Factors, shutdown \in Factors, safety \in Factors :
          MomentLimiterNew(RatedMoment, SafetyMargins(warning, shutdown, safety))
    \/ \E current_moment \in Moments : Check(current_moment)
    \/ Return

SpecLimiter == InitLimiter /\ [][NextLimiter]_vars

----------------------------------------------------------------------------
(* The moment limiter and the tower crane: properties.                     *)

\* factor * safety_factor * rated_moment - 0.01
Threshold(limiter, factor) ==
    FSub(FMul(FMul(factor, limiter.margins.safety_factor), limiter.rated_moment),
         Rat(1, 100))

Classification(limiter, m) ==
    IF ~limiter.enabled THEN "Disabled"
    ELSE IF FGt(m, Threshold(limiter, limiter.margins.shutdown_factor)) THEN "Shutdown"
    ELSE IF FGt(m, Threshold(limiter, limiter.margins.warning_factor)) THEN "Warning"
    ELSE "Normal"

StandardLimiter ==
    [rated_moment |-> Fin(1000000), margins |-> SafetyMargins_standard,
     enabled |-> TRUE, epsilon |-> Rat(1, 100)]

\* C23: MomentLimiter::check(m) is Disabled when the limiter is not enabled,
\* otherwise Shutdown when m > shutdown_factor*safety_factor*rated_moment - 0.01,
\* else Warning when m > warning_factor*safety_factor*rated_moment - 0.01, else
\* Normal; with rated 1,000,000 ft-lb and standard margins 500,000 is Normal,
\* 900,000 is Warning and 1,100,000 is Shutdown.
C23_CheckClassifies ==
    Returned("check") =>
        /\ outcome.res = Classification(tower.moment_limiter, outcome.current_moment)
        /\ tower.moment_limiter = StandardLimiter =>
               /\ outcome.current_moment = Fin(500000) => outcome.res = "Normal"
               /\ outcome.current_moment = Fin(900000) => outcome.res = "Warning"
               /\ outcome.current_moment = Fin(1000000) => outcome.res = "Shutdown"
               /\ outcome.current_moment = Fin(1100000) => outcome.res = "Shutdown"

\* a moment exactly at the warning threshold of the standard limiter is a Warning
C23_Witness ==
    /\ Returned("check")
    /\ tower.moment_limiter = StandardLimiter
    /\ outcome.current_moment = Fin(900000)
    /\ outcome.res = "Warning"

\* 0 < x <= 1
InUnitRange(x) == FLt(Fin(0), x) /\ FLe(x, Fin(1))

ValidMargins(margins) ==
    /\ InUnitRange(margins.warning_factor)
    /\ InUnitRange(margins.shutdown_factor)
    /\ InUnitRange(margins.safety_factor)
    /\ FLt(margins.warning_factor, margins.shutdown_factor)

\* C24: MomentLimiter::new(rated, margins) returns an error unless
\* 0 < warning_factor <= 1, 0 < shutdown_factor <= 1, 0 < safety_factor <= 1 and
\* warning_factor < shutdown_factor, and otherwise returns an enabled limiter
\* holding exactly those margins.
C24_NewAcceptsExactlyValidMargins ==
    Returned("MomentLimiter::new") =>
        /\ outcome.res.ok <=> ValidMargins(outcome.margins)
        /\ outcome.res.ok => /\ outcome.res.val.enabled
                             /\ outcome.res.val.margins = outcome.margins
                             /\ outcome.res.val.rated_moment = outcome.rated_moment

\* no factor being NaN, C24 holds
C24_FiniteMargins ==
    (/\ Returned("MomentLimiter::new")
     /\ outcome.margins.warning_factor # NaN
     /\ outcome.margins.shutdown_factor # NaN
     /\ outcome.margins.safety_factor # NaN) =>
        /\ outcome.res.ok <=> ValidMargins(outcome.margins)
        /\ outcome.res.ok => /\ outcome.res.val.enabled
                             /\ outcome.res.val.margins = outcome.margins

\* min_radius <= r <= max_radius
WithinJib(crane, r) == FLe(crane.jib.min_radius, r) /\ FLe(r, crane.jib.max_radius)

\* C25: capacity_at_radius(r) is max_moment / r for min_radius <= r <= max_radius,
\* both bounds included, and exactly 0 for r < min_radius or r > max_radius.
C25_CapacityAtRadius ==
    Returned("capacity_at_radius") =>
        /\ WithinJib(tower, outcome.radius) =>
               FMul(outcome.res, outcome.radius) = tower.max_moment
        /\ (FLt(outcome.radius, tower.jib.min_radius)
            \/ FGt(outcome.radius, tower.jib.max_radius)) => outcome.res = Fin(0)
        /\ (tower.jib.length = Fin(200) /\ outcome.radius = Fin(50)) =>
               outcome.res = Fin(20000)
        /\ (tower.jib.length = Fin(200) /\ outcome.radius = Fin(100)) =>
               outcome.res = Fin(10000)

\* the capacity at the two ends of the jib range
C25_Witness ==
    /\ Returned("capacity_at_radius")
    /\ tower.jib.length = Fin(200)
    /\ outcome.radius \in {tower.jib.min_radius, tower.jib.max_radius}
    /\ outcome.res \in {Fin(50000), Fin(5000)}

\* every Ok analysis has is_safe = true and a limiter_status other than Shutdown
SafeAnalysis(res) == res.ok => res.val.is_safe /\ res.val.limiter_status # "Shutdown"

C26_RatedMomentRefused ==
    /\ Returned("validate_lift")
    /\ WithinJib(tower, tower.trolley_position)
    /\ FMul(outcome.load, tower.trolley_position) = tower.max_moment
    /\ IsErr(outcome.res, "MomentLimiterShutdown")

\* C29: for a crane built by TowerCrane::new with any jib length and driven by
\* set_trolley_position calls, min_radius <= trolley_position <= max_radius
\* holds in every state.
C29_TrolleyStaysWithinJib == WithinJib(tower, tower.trolley_position)

\* C29, second part: set_trolley_position rejects a radius below min_radius with
\* RadiusTooSmall and one above max_radius with RadiusTooLarge, and leaves the
\* trolley position unchanged on error.
C29_RejectionLeavesTrolley ==
    [][\A radius \in TowerRadii : SetTrolleyPosition(radius) =>
          /\ FLt(radius, tower.jib.min_radius) =>
                 IsErr(outcome'.res, "RadiusTooSmall") /\ tower' = tower
          /\ (~FLt(radius, tower.jib.min_radius) /\ FGt(radius, tower.jib.max_radius)) =>
                 IsErr(outcome'.res, "RadiusTooLarge") /\ tower' = tower
          /\ WithinJib(tower, radius) =>
                 outcome'.res.ok /\ tower'.trolley_position = radius]_vars

\* a crane whose trolley is outside the range of its jib as built
C29_BuiltOutsideJib ==
    /\ outcome = NoCall
    /\ FGt(tower.trolley_position, tower.jib.max_radius)
    /\ FLe(tower.jib.min_radius, tower.jib.max_radius)

----------------------------------------------------------------------------
(* The lift validation report: inputs, operations, specification and       *)
(* properties (src/src/capacity/lift_validation.rs).                       *)

\* the most checks added to one report (validate_lift adds five kinds)
MaxChecks == 5

\* CheckStatus
CheckStatuses == {"Pass", "Warning", "Fail"}

\* the checks that are added
Checks ==
    {ValidationCheck(name, status, "details") :
        name \in {"Capacity", "Wind"}, status \in CheckStatuses}

\* ValidationReport::new
InitReport ==
    /\ NoAnalysis
    /\ NoChart
    /\ charts = <<>>
    /\ packages = ChartLibrary_new
    /\ tower = TowerCrane_new(Fin(200), RatedMoment)
    /\ report = ValidationReport_new
    /\ outcome = NoCall

\* ValidationReport::add_check
AddCheck(item) ==
    /\ Len(report.checks) < MaxChecks
    /\ report' = add_check(report, item)
    /\ UNCHANGED <<analysis_vars, chart_vars, charts, packages, tower, outcome>>

NextReport == \E item \in Checks : AddCheck(item)

SpecReport == InitReport /\ [][NextReport]_vars

\* the statuses of the checks added so far
Added == {report.checks[i].status : i \in DOMAIN report.checks}

StatusByChecks ==
    /\ report.overall_status = "Rejected" <=> "Fail" \in Added
    /\ report.overall_status = "ApprovedWithWarnings" <=>
           ("Fail" \notin Added /\ "Warning" \in Added)
    /\ report.overall_status = "Approved" <=> Added \subseteq {"Pass"}

\* C30: overall_status is Rejected iff at least one added check had status Fail,
\* ApprovedWithWarnings iff none failed and at least one had status Warning, and
\* Approved otherwise, whatever the order of the checks; once Rejected the report
\* never returns to an approved status.
C30_StatusIsTheWorstCheck ==
    /\ []StatusByChecks
    /\ [][report.overall_status = "Rejected" => report'.overall_status = "Rejected"]_vars

\* a warning and a pass added after a failure leave the report Rejected
C30_Witness ==
    /\ Len(report.checks) >= 3
    /\ report.checks[1].status = "Fail"
    /\ report.checks[2].status = "Warning"
    /\ report.checks[3].status = "Pass"
    /\ report.overall_status = "Rejected"
    /\ Len(report.warnings) = 1
    /\ Len(report.critical_issues) = 1

----------------------------------------------------------------------------
(* A chart package: inputs, operations, specification and properties       *)
(* (src/src/capacity/load_chart.rs, impl LoadChartPackage).                *)

\* the most charts added to one package
MaxCharts == 3

\* the configurations of the charts and of the queries; the first two match
\* one another, the last one has a boom length in an unknown unit
PackageConfigs ==
    { ChartConfiguration(OnRubber(<<>>), WithUnit(Fin(100), "ft"), <<>>),
      ChartConfiguration(OnRubber(<<"creep">>), WithUnit(Rat(20001, 200), "ft"),
          <<CounterweightConfiguration(WithUnit(Fin(1000), "lbs"), "Standard")>>),
      ChartConfiguration(OnCrawlers("wide"), WithUnit(Fin(100), "ft"), <<>>),
      ChartConfiguration(OnRubber(<<>>), WithUnit(Fin(100), "cubit"), <<>>) }

\* the charts that are added
PackageCharts ==
    {LoadChart(id, config, <<>>, <<>>) : id \in {"main", "alt"}, config \in PackageConfigs}

\* &self of the LoadChartPackage methods
Package == LoadChartPackage(<<"G">>, <<"1">>, charts)

\* LoadChartPackage::new
InitPackage ==
    /\ NoAnalysis
    /\ NoChart
    /\ charts = <<>>
    /\ packages = ChartLibrary_new
    /\ tower = TowerCrane_new(Fin(200), RatedMoment)
    /\ report = ValidationReport_new
    /\ outcome = NoCall

\* LoadChartPackage::add_chart
AddChart(chart) ==
    /\ outcome = NoCall
    /\ Len(charts) < MaxCharts
    /\ charts' = add_chart(Package, chart).charts
    /\ UNCHANGED <<analysis_vars, chart_vars, packages, tower, report, outcome>>

\* LoadChartPackage::find_chart
FindChart(config) ==
    /\ outcome = NoCall
    /\ outcome' = [op |-> "find_chart", config |-> config, res |-> find_chart(Package, config)]
    /\ UNCHANGED <<analysis_vars, chart_vars, other_vars>>

NextPackage ==
    \/ \E chart \in PackageCharts : AddChart(chart)
    \/ \E config \in PackageConfigs : FindChart(config)
    \/ Return

SpecPackage == InitPackage /\ [][NextPackage]_vars

\* the positions of the charts that match a configuration
Matching(all, config) == {i \in DOMAIN all : matches_configuration(all[i], config)}

\* the answer to a query: None, or the chart at the least matching position
EarliestMatch(all, config) ==
    IF Matching(all, config) = {} THEN <<>>
    ELSE <<all[CHOOSE i \in Matching(all, config) : \A j \in Matching(all, config) : i <= j]>>

FindsEarliest ==
    Returned("find_chart") =>
        /\ outcome.res = <<>> <=> Matching(charts, outcome.config) = {}
        /\ outcome.res # <<>> =>
               \E i \in Matching(charts, outcome.config) :
                   /\ outcome.res[1] = charts[i]
                   /\ \A j \in 1..(i - 1) : j \notin Matching(charts, outcome.config)

\* C21: find_chart(config) returns the earliest-added chart for which
\* matches_configuration(config) is true, and None exactly when no chart in the
\* package matches; adding further charts never changes which chart an
\* already-answered query returns.
C21_FirstMatchWins ==
    /\ []FindsEarliest
    /\ [][\A config \in PackageConfigs :
             EarliestMatch(charts, config) # <<>> =>
                 EarliestMatch(charts', config) = EarliestMatch(charts, config)]_vars

\* of two different charts that both match the query the first added is returned
C21_Witness ==
    /\ Returned("find_chart")
    /\ Len(charts) = 3
    /\ charts[2].id # charts[3].id
    /\ charts[2].configuration # charts[3].configuration
    /\ Matching(charts, outcome.config) = {2, 3}
    /\ outcome.res = <<charts[2]>>

----------------------------------------------------------------------------
(* The chart library: inputs, operations, specification and properties     *)
(* (src/src/capacity/chart_library.rs).                                    *)

\* manufacturer and model names, as sequences of characters
Manufacturers == { <<"A">>, <<"D">>, <<"A", ":", "B">> }

Models == { <<"C">>, <<"B", ":", "C">> }

\* the (manufacturer, model) pairs
Pairs == Manufacturers \X Models

\* two revisions of the charts of a package
Revisions ==
    { <<>>,
      <<LoadChart("main", ChartConfiguration(OnRubber(<<>>), WithUnit(Fin(100), "ft"), <<>>),
                  <<>>, <<>>)>> }

\* the packages that are added
LibraryPackages ==
    {LoadChartPackage(pair[1], pair[2], revision) : pair \in Pairs, revision \in Revisions}

\* ChartLibrary::new
InitLibrary ==
    /\ NoAnalysis
    /\ NoChart
    /\ charts = <<>>
    /\ packages = ChartLibrary_new
    /\ tower = TowerCrane_new(Fin(200), RatedMoment)
    /\ report = ValidationReport_new
    /\ outcome = NoCall

\* ChartLibrary::add_package
AddPackage(package) ==
    /\ outcome = NoCall
    /\ packages' = add_package(packages, package)
    /\ UNCHANGED <<analysis_vars, chart_vars, charts, tower, report, outcome>>

\* ChartLibrary::remove_package
RemovePackage(manufacturer, model) ==
    /\ outcome = NoCall
    /\ packages' = remove_package(packages, manufacturer, model)
    /\ outcome' = [op |-> "remove_package", manufacturer |-> manufacturer, model |-> model,
                   res |-> get_package(packages, manufacturer, model)]
    /\ UNCHANGED <<analysis_vars, chart_vars, charts, tower, report>>

\* ChartLibrary::clear
Clear ==
    /\ outcome = NoCall
    /\ packages # ChartLibrary_new
    /\ packages' = ChartLibrary_new
    /\ UNCHANGED <<analysis_vars, chart_vars, charts, tower, report, outcome>>

\* ChartLibrary::get_package
GetPackage(manufacturer, model) ==
    /\ outcome = NoCall
    /\ outcome' = [op |-> "get_package", manufacturer |-> manufacturer, model |-> model,
                   res |-> get_package(packages, manufacturer, model)]
    /\ UNCHANGED <<analysis_vars, chart_vars, other_vars>>

\* ChartLibrary::package_count and ChartLibrary::is_empty
PackageCount ==
    /\ outcome = NoCall
    /\ outcome' = [op |-> "package_count", res |-> package_count(packages),
                   is_empty |-> is_empty(packages)]
    /\ UNCHANGED <<analysis_vars, chart_vars, other_vars>>

NextLibrary ==
    \/ \E package \in LibraryPackages : AddPackage(package)
    \/ \E pair \in Pairs : RemovePackage(pair[1], pair[2])
    \/ Clear
    \/ \E pair \in Pairs : GetPackage(pair[1], pair[2])
    \/ PackageCount
    \/ Return

SpecLibrary == InitLibrary /\ [][NextLibrary]_vars

\* the pair of a package
PairOf(package) == <<package.crane_info.manufacturer, package.crane_info.model>>

\* the pairs for which the library holds a package
Present(library) == {pair \in Pairs : get_package(library, pair[1], pair[2]) # <<>>}

\* get_package answers the same for every pair but the given one
OthersKept(pair) ==
    \A other \in Pairs \ {pair} :
        get_package(packages', other[1], other[2]) = get_package(packages, other[1], other[2])

GetsItsPair ==
    Returned("get_package") =>
        /\ outcome.res = get_package(packages, outcome.manufacturer, outcome.model)
        /\ outcome.res # <<>> =>
               PairOf(outcome.res[1]) = <<outcome.manufacturer, outcome.model>>

CountsPairs ==
    Returned("package_count") =>
        /\ outcome.res = Cardinality(Present(packages))
        /\ outcome.is_empty <=> outcome.res = 0

\* what each call does to the answers of get_package
MostRecentlyAdded ==
    /\ \A package \in LibraryPackages :
           AddPackage(package) =>
               /\ get_package(packages', PairOf(package)[1], PairOf(package)[2]) = <<package>>
               /\ OthersKept(PairOf(package))
    /\ \A pair \in Pairs :
           RemovePackage(pair[1], pair[2]) =>
               /\ get_package(packages', pair[1], pair[2]) = <<>>
               /\ OthersKept(pair)
    /\ Clear => Present(packages') = {}

\* C27: get_package(m, model) returns the most recently added and not since
\* removed package of manufacturer m and model model, None when there is none,
\* and never a package of a different pair; package_count is the number of
\* distinct pairs present and is_empty holds iff it is 0.
C27_LibraryIsKeyedByPair ==
    /\ [](GetsItsPair /\ CountsPairs)
    /\ [][MostRecentlyAdded]_vars

\* get_package hands out a package of another pair
C27_ForeignPackage ==
    /\ Returned("get_package")
    /\ outcome.res # <<>>
    /\ PairOf(outcome.res[1]) # <<outcome.manufacturer, outcome.model>>

\* C27 for the pairs whose key no other pair has: the library behaves as stated
C27_UnsharedKeys ==
    Returned("get_package") =>
        ((\A other \in Pairs \ {<<outcome.manufacturer, outcome.model>>} :
              PackageKey(other[1], other[2])
                  # PackageKey(outcome.manufacturer, outcome.model))
         => (outcome.res # <<>> =>
                 PairOf(outcome.res[1]) = <<outcome.manufacturer, outcome.model>>))

----------------------------------------------------------------------------
(* Validation of the library's charts: inputs, operations, specification   *)
(* and properties (src/src/capacity/chart_library.rs).                     *)

\* the most charts of a validated package
MaxPackageCharts == 2

GoodConfiguration ==
    ChartConfiguration(OnRubber(<<>>), WithUnit(Fin(100), "ft"),
        <<CounterweightConfiguration(WithUnit(Fin(1000), "lbs"), "Standard")>>)

\* the charts that are validated: a sound one, the sound one with a boom length
\* of unknown unit added (tests::test_invalid_units), one with bad units
\* everywhere and fewer rows than boom lengths, one with rows but no boom length
ValidatedCharts ==
    { LoadChart("sound", GoodConfiguration, <<WithUnit(Fin(50), "ft")>>,
          << <<<<WithUnit(Fin(10), "ft"), WithUnit(Fin(100), "lbs")>>>> >>),
      LoadChart("pushed", GoodConfiguration,
          <<WithUnit(Fin(50), "ft"), WithUnit(Fin(200), "invalid_unit")>>,
          << <<<<WithUnit(Fin(10), "ft"), WithUnit(Fin(100), "lbs")>>>> >>),
      LoadChart("unsound",
          ChartConfiguration(OnRubber(<<>>), WithUnit(Fin(100), "cubit"),
              <<CounterweightConfiguration(WithUnit(Fin(1000), "stone"), "Standard")>>),
          <<WithUnit(Fin(50), "cubit"), WithUnit(Fin(60), "ft"), WithUnit(Fin(70), "ell")>>,
          << <<<<WithUnit(Fin(10), "cubit"), WithUnit(Fin(100), "stone")>>,
               <<WithUnit(Fin(20), "ft"), WithUnit(Fin(90), "stone")>>>> >>),
      LoadChart("rows only",
          ChartConfiguration(OnRubber(<<>>), WithUnit(Fin(100), "ft"), <<>>),
          <<>>,
          << <<<<WithUnit(Fin(10), "ell"), WithUnit(Fin(100), "lbs")>>>>, <<>> >>) }

\* the packages that are validated
ValidatedPackages ==
    {LoadChartPackage(manufacturer, <<"C">>, package_charts) :
        manufacturer \in {<<"A">>, <<"D">>},
        package_charts \in UNION {[1..n -> ValidatedCharts] : n \in 0..MaxPackageCharts}}

\* ChartLibrary::validate_all, with is_valid and error_count of its report
ValidateAll ==
    /\ outcome = NoCall
    /\ outcome' = [op |-> "validate_all", res |-> validate_all(packages),
                   is_valid |-> is_valid(validate_all(packages).val),
                   error_count |-> error_count(validate_all(packages).val)]
    /\ UNCHANGED <<analysis_vars, chart_vars, other_vars>>

NextValidation ==
    \/ \E package \in ValidatedPackages : AddPackage(package)
    \/ ValidateAll
    \/ Return

SpecValidation == InitLibrary /\ [][NextValidation]_vars

\* the sum of a sequence of numbers
RECURSIVE Total(_)
Total(numbers) == IF numbers = <<>> THEN 0 ELSE Head(numbers) + Total(Tail(numbers))

\* the number of units of a chart that do not parse, plus one for a length mismatch
Faults(chart) ==
    Cardinality({i \in DOMAIN chart.capacity_data.boom_lengths :
                    chart.capacity_data.boom_lengths[i].unit \notin LengthUnits})
    + Total([i \in DOMAIN chart.capacity_data.data |->
                Cardinality({j \in DOMAIN chart.capacity_data.data[i] :
                                chart.capacity_data.data[i][j][1].unit \notin LengthUnits})
                + Cardinality({j \in DOMAIN chart.capacity_data.data[i] :
                                  chart.capacity_data.data[i][j][2].unit \notin MassUnits})])
    + (IF chart.configuration.boom.length.unit \notin LengthUnits THEN 1 ELSE 0)
    + (IF chart.configuration.counterweight # <<>>
          /\ chart.configuration.counterweight[1].weight.unit \notin MassUnits
       THEN 1 ELSE 0)
    + (IF Len(chart.capacity_data.boom_lengths) # Len(chart.capacity_data.data)
       THEN 1 ELSE 0)

\* the errors reported under a package key for a chart id
ReportedFor(errors, key, id) ==
    IF key \in DOMAIN errors
    THEN Cardinality({e \in DOMAIN errors[key] : errors[key][e].chart_id = id})
    ELSE 0

\* the faults of the charts of a package that have the id
FaultsFor(package, id) ==
    Total([c \in DOMAIN package.charts |->
              IF package.charts[c].id = id THEN Faults(package.charts[c]) ELSE 0])

\* the faults of all the charts of the packages under the keys
RECURSIVE TotalFaults(_, _)
TotalFaults(library, keys) ==
    IF keys = {} THEN 0
    ELSE LET key == CHOOSE k \in keys : TRUE
         IN  Total([c \in DOMAIN library[key].charts |-> Faults(library[key].charts[c])])
             + TotalFaults(library, keys \ {key})

ChartIds == {chart.id : chart \in ValidatedCharts}

\* C22: validate_chart reports one error for every boom-length entry, radius,
\* capacity, boom-configuration length and counterweight weight whose unit does
\* not parse, plus one when boom_lengths and data differ in length, and is Ok
\* exactly when there is none; validate_all always returns Ok(report), the report
\* holding every error of every chart of every package under its package key and
\* chart id, so error_count is the total and is_valid iff every chart validates.
C22_EveryFaultIsReported ==
    Returned("validate_all") =>
        /\ outcome.res.ok
        /\ \A key \in DOMAIN packages :
               /\ \A c \in DOMAIN packages[key].charts :
                      /\ validate_chart(packages[key].charts[c]).ok
                             <=> Faults(packages[key].charts[c]) = 0
                      /\ ~validate_chart(packages[key].charts[c]).ok =>
                             Len(validate_chart(packages[key].charts[c]).errors)
                                 = Faults(packages[key].charts[c])
               /\ \A id \in ChartIds :
                      ReportedFor(outcome.res.val.errors, key, id)
                          = FaultsFor(packages[key], id)
        /\ DOMAIN outcome.res.val.errors \subseteq DOMAIN packages
        /\ outcome.error_count = TotalFaults(packages, DOMAIN packages)
        /\ outcome.is_valid <=>
               \A key \in DOMAIN packages : \A c \in DOMAIN packages[key].charts :
                   validate_chart(packages[key].charts[c]).ok

\* a report with the six errors of one chart and the one of another, under two keys
C22_Witness ==
    /\ Returned("validate_all")
    /\ DOMAIN outcome.res.val.errors = {PackageKey(<<"A">>, <<"C">>), PackageKey(<<"D">>, <<"C">>)}
    /\ ReportedFor(outcome.res.val.errors, PackageKey(<<"A">>, <<"C">>), "unsound") = 8
    /\ ReportedFor(outcome.res.val.errors, PackageKey(<<"A">>, <<"C">>), "pushed") = 2
    /\ ReportedFor(outcome.res.val.errors, PackageKey(<<"D">>, <<"C">>), "rows only") = 2
    /\ outcome.error_count = 12
    /\ ~outcome.is_valid

----------------------------------------------------------------------------
(* Bounds validation against lookup: inputs, operations, specification and *)
(* properties (src/src/capacity/load_chart.rs).                            *)

BoundsPoints ==
    { <<WithUnit(Fin(10), "ft"), WithUnit(Fin(100), "lbs")>>,
      <<WithUnit(Fin(20), "ft"), WithUnit(Fin(60), "lbs")>> }

BoundsRadiusQueries == {Fin(5), Fin(10), Fin(15), Fin(20), Fin(25)}

\* LoadChart::validate_bounds
ValidateBounds(boom_length, radius) ==
    /\ outcome = NoCall
    /\ outcome' = [op |-> "validate_bounds", boom_length |-> boom_length,
                   radius |-> radius,
                   res |-> validate_bounds(Chart, boom_length, radius)]
    /\ UNCHANGED <<analysis_vars, chart_vars, other_vars>>

NextBounds ==
    \/ \E l \in ChartBooms : AddBoomLength(l)
    \/ \E pt \in BoundsPoints : AddUnitPoint(pt[1], pt[2])
    \/ \E b \in ChartBoomQueries, r \in BoundsRadiusQueries : ValidateBounds(b, r)
    \/ \E b \in ChartBoomQueries, r \in BoundsRadiusQueries : CapacityInterpolated(b, r)
    \/ Return

SpecBounds == InitChart /\ [][NextBounds]_vars

\* C28: for every chart with parseable units and every (b, r), if
\* validate_bounds(b, r) returns Ok then capacity_interpolated(b, r) returns a
\* capacity (not BoomLengthNotFound, RadiusOutOfRange or NoData).
C28_ValidBoundsHaveCapacity ==
    (Returned("validate_bounds") /\ outcome.res.ok) =>
        capacity_interpolated(Chart, outcome.boom_length, outcome.radius).ok

\* bounds accepted between a row that holds the radius and a row that does not
C28_OneRowHoldsRadius ==
    /\ Returned("validate_bounds")
    /\ outcome.res.ok
    /\ boom_lengths = <<WithUnit(Fin(50), "ft"), WithUnit(Fin(60), "ft")>>
    /\ Len(data[1]) = 2
    /\ Len(data[2]) = 1
    /\ data[2][1][1] = WithUnit(Fin(10), "ft")
    /\ outcome.boom_length = Fin(55)
    /\ outcome.radius = Fin(15)
    /\ IsErr(capacity_interpolated(Chart, outcome.boom_length, outcome.radius),
             "RadiusOutOfRange")

\* bounds accepted next to an empty row
C28_EmptyRowSkipped ==
    /\ Returned("validate_bounds")
    /\ outcome.res.ok
    /\ Len(data) = 2
    /\ data[2] = <<>>
    /\ IsErr(capacity_interpolated(Chart, outcome.boom_length, outcome.radius), "NoData")

\* C28 where one row bounds the boom length from both sides: accepted bounds
\* have a capacity
C28_SingleRow ==
    (/\ Returned("validate_bounds")
     /\ outcome.res.ok
     /\ find_boom_bounds(Chart, outcome.boom_length).ok
     /\ find_boom_bounds(Chart, outcome.boom_length).val[1]
            = find_boom_bounds(Chart, outcome.boom_length).val[2]) =>
        capacity_interpolated(Chart, outcome.boom_length, outcome.radius).ok

=============================================================================
